---------------------------- MODULE Spec2Model ----------------------------
(***************************************************************************)
(* Model of the Fusion 360 body renamer add-in                             *)
(* (src/fusion360_body_renamer.py): the body analyzer, the naming engine   *)
(* (context classifier, hint parser, name scorer, collision suffixing) and *)
(* the command dialog's callbacks.                                         *)
(*                                                                         *)
(* Python dicts are functions with a finite domain of keys; d.get(k, v) is *)
(* DictGet(d, k, v).  Python strings are TLA+ strings; lower(), the `in'   *)
(* substring test and f-string formatting are computed character by        *)
(* character.                                                              *)
(***************************************************************************)
EXTENDS Integers, Sequences, FiniteSets, TLC

VARIABLES
    bodies_data,      \* the batch: list of dicts with a 'properties' descriptor
    user_hint,        \* the free-text hint (the value of the 'aiPrompt' input)
    last_call,        \* the last direct call to the naming engine and what it returned
    pc,               \* where the command is: "idle", "dialog" or "executed"
    host,             \* the bodies of the active design, as the host holds them
    renamer_bodies,   \* renamer.bodies: the visible bodies, as positions in host
    inputs,           \* the command inputs of the dialog's table
    renamed_count,    \* renamed_count of the execute callback
    errors,           \* the error list of the execute callback
    messages,         \* the message boxes shown by the last callback
    handlers,         \* _handlers: the process-wide handler registry
    rules_file,       \* the rules document on disk
    shapes,           \* GeometryManager.shapes
    selected_shape    \* GeometryManager.selected_shape

engineVars == <<bodies_data, user_hint, last_call>>

dialogVars == <<pc, host, renamer_bodies, inputs, renamed_count, errors, messages>>

geometryVars == <<shapes, selected_shape>>

utilVars == <<handlers, rules_file, shapes, selected_shape>>

vars == <<bodies_data, user_hint, last_call, pc, host, renamer_bodies, inputs,
          renamed_count, errors, messages, handlers, rules_file, shapes,
          selected_shape>>

---------------------------------------------------------------------------
(* Bounds of the model *)

\* the naming pass is run on every batch of at most MaxBatch bodies, and on the
\* batches of MaxBatch + 1 bodies of the core descriptors
MaxBatch == 2
\* longest hand-made candidate list handed to _select_best_name
MaxCand == 2
\* the dialog is opened on every design of at most MaxBodies bodies, and on the
\* designs of MaxBodies + 1 bodies of the core bodies
MaxBodies == 2
\* the analyzer is run on boxes whose min corner is at most MaxShift steps of
\* two units from the origin on each axis
MaxShift == 1
\* how many rows of the table the user changes by hand (a suggestion edited
\* or a checkbox toggled) in one dialog
MaxEdits == 1

---------------------------------------------------------------------------
(* Python building blocks *)

\* the empty dict {}
EmptyDict == [k \in {} |-> 0]

\* d.get(k, default)
DictGet(d, k, default) == IF k \in DOMAIN d THEN d[k] ELSE default

\* str.lower() on one character
LowerChar(c) ==
    CASE c = "A" -> "a" [] c = "B" -> "b" [] c = "C" -> "c" [] c = "D" -> "d"
      [] c = "E" -> "e" [] c = "F" -> "f" [] c = "G" -> "g" [] c = "H" -> "h"
      [] c = "I" -> "i" [] c = "J" -> "j" [] c = "K" -> "k" [] c = "L" -> "l"
      [] c = "M" -> "m" [] c = "N" -> "n" [] c = "O" -> "o" [] c = "P" -> "p"
      [] c = "Q" -> "q" [] c = "R" -> "r" [] c = "S" -> "s" [] c = "T" -> "t"
      [] c = "U" -> "u" [] c = "V" -> "v" [] c = "W" -> "w" [] c = "X" -> "x"
      [] c = "Y" -> "y" [] c = "Z" -> "z" [] OTHER -> c

\* str.lower()
RECURSIVE Lower(_)
Lower(s) ==
    IF Len(s) = 0 THEN ""
    ELSE LowerChar(SubSeq(s, 1, 1)) \o Lower(SubSeq(s, 2, Len(s)))

\* word in s (substring test)
Contains(word, s) ==
    \E i \in 1..(Len(s) - Len(word) + 1) : SubSeq(s, i, i + Len(word) - 1) = word

\* any(word in s for word in words)
ContainsAny(words, s) == \E i \in 1..Len(words) : Contains(words[i], s)

\* mutant of PyMaxFrom: the last item whose key is maximal
RECURSIVE PyMaxFromLast(_, _, _)
PyMaxFromLast(best, rest, score) ==
    IF rest = <<>> THEN best
    ELSE PyMaxFromLast(IF score[Head(rest)] >= score[best] THEN Head(rest) ELSE best,
                       Tail(rest), score)

\* max(items, key=lambda k: score[k]): the first item whose key is maximal
RECURSIVE PyMaxFrom(_, _, _)
PyMaxFrom(best, rest, score) ==
    IF rest = <<>> THEN best
    ELSE PyMaxFrom(IF score[Head(rest)] > score[best] THEN Head(rest) ELSE best,
                   Tail(rest), score)

PyMax(items, score) == PyMaxFrom(Head(items), Tail(items), score)

\* comparison of two key tuples of equal length, as Python compares tuples
RECURSIVE TupleLess(_, _)
TupleLess(a, b) ==
    IF a = <<>> THEN FALSE
    ELSE IF Head(a) # Head(b) THEN Head(a) < Head(b)
    ELSE TupleLess(Tail(a), Tail(b))

\* insertion of e behind every element whose key is not greater (stable)
RECURSIVE InsertByKey(_, _)
InsertByKey(e, sorted) ==
    IF sorted = <<>> THEN <<e>>
    ELSE IF TupleLess(e.key, Head(sorted).key) THEN <<e>> \o sorted
    ELSE <<Head(sorted)>> \o InsertByKey(e, Tail(sorted))

\* sorted(items, key=...) / list.sort(key=...): a stable sort of
\* [key |-> tuple, item |-> x] records
RECURSIVE PySorted(_)
PySorted(keyed) ==
    IF keyed = <<>> THEN <<>>
    ELSE InsertByKey(keyed[Len(keyed)], PySorted(SubSeq(keyed, 1, Len(keyed) - 1)))

---------------------------------------------------------------------------
(* IntelligentNamingEngine: the rule tables *)

\* self.naming_patterns
naming_patterns ==
    [mechanical_basic |->
        <<"Shaft", "Gear", "Bearing", "Pulley", "Sprocket", "Coupling", "Bushing",
          "Washer", "Housing", "Cover", "Base", "Frame", "Bracket", "Mount",
          "Support", "Clamp">>,
     mechanical_advanced |->
        <<"Drive Shaft", "Input Gear", "Output Gear", "Bearing Race",
          "Timing Pulley", "Chain Sprocket", "Flexible Coupling", "Linear Bushing",
          "Spring Washer", "Motor Housing", "Access Cover", "Mounting Base",
          "Main Frame">>,
     fasteners |->
        <<"Hex Bolt", "Cap Screw", "Socket Head", "Flat Head", "Pan Head",
          "Button Head", "Hex Nut", "Lock Nut", "Wing Nut", "Threaded Rod",
          "Dowel Pin", "Spring Pin">>,
     automotive |->
        <<"Engine Block", "Cylinder Head", "Piston", "Connecting Rod", "Crankshaft",
          "Brake Disc", "Brake Caliper", "Suspension Arm", "Control Arm",
          "Steering Knuckle", "Body Panel", "Door Frame", "Window Frame", "Bumper",
          "Fender", "Hood">>,
     electronics |->
        <<"PCB Main", "PCB Control", "Connector Housing", "Terminal Block",
          "Heat Sink", "Enclosure", "Front Panel", "Back Panel", "Display Mount",
          "Button Cap", "LED Holder", "Switch Housing", "Cable Clamp",
          "Strain Relief">>,
     furniture |->
        <<"Table Top", "Table Leg", "Drawer Front", "Drawer Side", "Drawer Back",
          "Handle", "Knob", "Hinge", "Shelf", "Side Panel", "Back Panel",
          "Cushion Base", "Armrest", "Headrest", "Caster", "Support Bar">>,
     architecture |->
        <<"Main Beam", "Support Beam", "Column", "Wall Panel", "Floor Slab",
          "Roof Beam", "Rafter", "Joist", "Stud", "Header", "Sill Plate",
          "Foundation", "Footing", "Window Frame", "Door Frame">>]

\* the keys of the accumulator dict of analyze_design_context, in insertion order
ContextKeys == <<"mechanical", "automotive", "electronics", "furniture", "architecture">>

\* the keyword sets of _process_user_hint, in the order of the if/elif chain
HintKeywords ==
    << [category |-> "automotive",          words |-> <<"car", "auto", "engine", "brake", "wheel">>],
       [category |-> "electronics",         words |-> <<"circuit", "pcb", "electronic", "connector">>],
       [category |-> "furniture",           words |-> <<"table", "chair", "drawer", "furniture">>],
       [category |-> "architecture",        words |-> <<"building", "beam", "column", "wall">>],
       [category |-> "mechanical_advanced", words |-> <<"gear", "shaft", "bearing", "machine">>],
       [category |-> "fasteners",           words |-> <<"bolt", "screw", "nut", "fastener">>] >>

---------------------------------------------------------------------------
(* IntelligentNamingEngine.analyze_design_context *)

\* contexts[k] += n
Bump(contexts, k, n) == [contexts EXCEPT ![k] = @ + n]

\* the size-based if/elif chain of one loop iteration
SizeClassification(contexts, max_dim) ==
    IF max_dim > 1000 THEN Bump(contexts, "architecture", 2)
    ELSE IF max_dim < 10 THEN Bump(Bump(contexts, "electronics", 2), "mechanical", 1)
    ELSE IF 50 < max_dim /\ max_dim < 500
         THEN Bump(Bump(Bump(contexts, "automotive", 1), "mechanical", 1), "furniture", 1)
    ELSE contexts

\* mutant of ShapeClassification: a flat body counts for furniture only
ShapeClassificationFurnitureOnly(contexts, p) ==
    LET c1 == IF DictGet(p, "is_long_thin", FALSE)
              THEN Bump(contexts, "mechanical", 1) ELSE contexts
        c2 == IF DictGet(p, "face_count", 0) > 20
              THEN Bump(c1, "automotive", 1) ELSE c1
    IN  IF DictGet(p, "is_flat", FALSE) THEN Bump(c2, "furniture", 1) ELSE c2

\* the three shape-based ifs of one loop iteration
ShapeClassification(contexts, p) ==
    LET c1 == IF DictGet(p, "is_long_thin", FALSE)
              THEN Bump(contexts, "mechanical", 1) ELSE contexts
        c2 == IF DictGet(p, "face_count", 0) > 20
              THEN Bump(c1, "automotive", 1) ELSE c1
    IN  IF DictGet(p, "is_flat", FALSE)
        THEN Bump(Bump(c2, "furniture", 1), "electronics", 1) ELSE c2

\* one iteration of the loop over bodies_data
ClassifyBody(contexts, body_data) ==
    LET p == DictGet(body_data, "properties", EmptyDict)
    IN  ShapeClassification(SizeClassification(contexts, DictGet(p, "max_dimension", 0)), p)

RECURSIVE ContextScores(_, _)

\* mutant of ContextScores: the accumulators are reset on every iteration, so
\* only the last body counts
ContextScoresReset(contexts, bodies) ==
    IF bodies = <<>> THEN contexts
    ELSE ClassifyBody(contexts, bodies[Len(bodies)])

\* the accumulators after the loop over bodies_data
ContextScores(contexts, bodies) ==
    IF bodies = <<>> THEN contexts
    ELSE ContextScores(ClassifyBody(contexts, Head(bodies)), Tail(bodies))

\* the `contexts' dict as initialised
ZeroContexts == [k \in {ContextKeys[i] : i \in 1..Len(ContextKeys)} |-> 0]

analyze_design_context(bodies) ==
    IF bodies = <<>> THEN "general"
    ELSE PyMax(ContextKeys, ContextScores(ZeroContexts, bodies))

---------------------------------------------------------------------------
(* IntelligentNamingEngine._process_user_hint *)

\* the if/elif chain over the keyword sets, from position i on
RECURSIVE KeywordMatch(_, _, _)
KeywordMatch(hint_lower, i, default_context) ==
    IF i > Len(HintKeywords) THEN default_context \o "_basic"
    ELSE IF ContainsAny(HintKeywords[i].words, hint_lower) THEN HintKeywords[i].category
    ELSE KeywordMatch(hint_lower, i + 1, default_context)

\* mutant of process_user_hint: the hint is matched without being lower-cased
process_user_hint_cased(hint, default_context) ==
    IF hint = "" THEN default_context \o "_basic"
    ELSE KeywordMatch(hint, 1, default_context)

process_user_hint(hint, default_context) ==
    IF hint = "" THEN default_context \o "_basic"
    ELSE KeywordMatch(Lower(hint), 1, default_context)

---------------------------------------------------------------------------
(* IntelligentNamingEngine._select_best_name *)

\* the size, shape and complexity words of the scoring rules
LargeWords == <<"large", "main">>
SmallWords == <<"small", "mini">>
LongThinWords == <<"shaft", "rod", "bar", "beam">>
CubicWords == <<"block", "cube", "housing">>
FlatWords == <<"plate", "panel", "cover", "top">>
ComplexWords == <<"housing", "assembly">>

\* hand-made candidates handed to _select_best_name besides the rule tables
CandidatePool ==
    {"Cover", "Shaft", "Gear", "Main Frame", "Small Block", "Mini Rod",
     "Large Housing", "Switch Assembly"}

\* every candidate name of the model
KnownNames ==
    UNION {{naming_patterns[c][i] : i \in 1..Len(naming_patterns[c])} :
             c \in DOMAIN naming_patterns}
    \cup CandidatePool

\* which words of the scoring rules occur in name.lower()
NameWords(name) ==
    LET name_lower == Lower(name)
    IN  [large |-> ContainsAny(LargeWords, name_lower),
         small |-> ContainsAny(SmallWords, name_lower),
         long_thin |-> ContainsAny(LongThinWords, name_lower),
         cubic |-> ContainsAny(CubicWords, name_lower),
         flat |-> ContainsAny(FlatWords, name_lower),
         complex |-> ContainsAny(ComplexWords, name_lower)]

\* NameWords of every candidate, computed once
name_words == [n \in KnownNames |-> NameWords(n)]

\* mutant of NameScore: the size thresholds are inclusive
NameScoreInclusive(p, name) ==
    LET w == name_words[name]
        max_dim == DictGet(p, "max_dimension", 0)
        size == IF w.large THEN (IF max_dim >= 100 THEN 10 ELSE -5)
                ELSE IF w.small THEN (IF max_dim <= 50 THEN 10 ELSE -5)
                ELSE 0
        long_thin == IF DictGet(p, "is_long_thin", FALSE) /\ w.long_thin THEN 15 ELSE 0
        cubic == IF DictGet(p, "is_cubic", FALSE) /\ w.cubic THEN 15 ELSE 0
        flat == IF DictGet(p, "is_flat", FALSE) /\ w.flat THEN 15 ELSE 0
        complex == IF DictGet(p, "complexity", "simple") = "complex" /\ w.complex
                   THEN 10 ELSE 0
    IN  size + long_thin + cubic + flat + complex

\* the score one candidate gets in the loop body
NameScore(p, name) ==
    LET w == name_words[name]
        max_dim == DictGet(p, "max_dimension", 0)
        size == IF w.large THEN (IF max_dim > 100 THEN 10 ELSE -5)
                ELSE IF w.small THEN (IF max_dim < 50 THEN 10 ELSE -5)
                ELSE 0
        long_thin == IF DictGet(p, "is_long_thin", FALSE) /\ w.long_thin THEN 15 ELSE 0
        cubic == IF DictGet(p, "is_cubic", FALSE) /\ w.cubic THEN 15 ELSE 0
        flat == IF DictGet(p, "is_flat", FALSE) /\ w.flat THEN 15 ELSE 0
        complex == IF DictGet(p, "complexity", "simple") = "complex" /\ w.complex
                   THEN 10 ELSE 0
    IN  size + long_thin + cubic + flat + complex

\* scores.keys(): the candidates in list order, each once
RECURSIVE DictKeys(_)
DictKeys(items) ==
    IF items = <<>> THEN <<>>
    ELSE LET front == DictKeys(SubSeq(items, 1, Len(items) - 1))
             last == items[Len(items)]
         IN  IF \E i \in 1..Len(front) : front[i] = last THEN front
             ELSE Append(front, last)

select_best_name(p, candidates, used_names) ==
    IF DOMAIN p = {} \/ candidates = <<>>
    THEN (IF candidates # <<>> THEN candidates[1] ELSE "Component")
    ELSE LET scores == [n \in {candidates[i] : i \in 1..Len(candidates)} |-> NameScore(p, n)]
         IN  PyMax(DictKeys(candidates), scores)

---------------------------------------------------------------------------
(* IntelligentNamingEngine.generate_intelligent_names *)

\* str(d) of one decimal digit
DigitStr(d) == SubSeq("0123456789", d + 1, d + 1)

\* str(n) as the f-string formats a counter
RECURSIVE IntStr(_)
IntStr(n) == IF n < 10 THEN DigitStr(n) ELSE IntStr(n \div 10) \o DigitStr(n % 10)

\* mutant of BaseNamesFor: the fallback looks the context's own list up
BaseNamesForContext(suggested_category, ctx) ==
    DictGet(naming_patterns, suggested_category,
            DictGet(naming_patterns, ctx, naming_patterns["mechanical_basic"]))

\* the candidate list: naming_patterns.get(category, naming_patterns.get(
\* context + '_basic', naming_patterns['mechanical_basic']))
BaseNamesFor(suggested_category, ctx) ==
    DictGet(naming_patterns, suggested_category,
            DictGet(naming_patterns, ctx \o "_basic", naming_patterns["mechanical_basic"]))

\* mutant of SizePositionKey: the bodies are sorted by size alone
SizeOnlyKey(body_data) ==
    LET p == DictGet(body_data, "properties", EmptyDict)
    IN  <<DictGet(p, "max_dimension", 0), 0>>

\* the sort key of one body: (max_dimension, center_x)
SizePositionKey(body_data) ==
    LET p == DictGet(body_data, "properties", EmptyDict)
    IN  <<DictGet(p, "max_dimension", 0), DictGet(p, "center_x", 0)>>

\* sorted(enumerate(bodies_data), key=...); an item is <<original_idx, body_data>>,
\* original_idx counting from 1 here
SortedBodies(bodies) ==
    PySorted([i \in 1..Len(bodies) |->
                [key |-> SizePositionKey(bodies[i]), item |-> <<i, bodies[i]>>]])

\* [self._select_best_name(bd.get('properties', {}), base_names, {})
\*  for _, bd in sorted_bodies]: the list the loop rebuilds, unchanged, on each
\* iteration
RECURSIVE FreshSelections(_, _)
FreshSelections(sorted_bodies, candidates) ==
    IF sorted_bodies = <<>> THEN <<>>
    ELSE <<select_best_name(DictGet(Head(sorted_bodies).item[2], "properties", EmptyDict),
                            candidates, EmptyDict)>>
         \o FreshSelections(Tail(sorted_bodies), candidates)

\* sum(1 for name in [...] if name == base_name)
SelectionCount(base_name, selections) ==
    Cardinality({j \in 1..Len(selections) : selections[j] = base_name})

\* mutant of CountName: the counter of a base name is set to 1 every time
CountNameOnce(name_counters, base_name) ==
    (base_name :> 1) @@ name_counters

\* name_counters after `if base_name not in name_counters: ... = 0; ... += 1'
CountName(name_counters, base_name) ==
    (base_name :> (DictGet(name_counters, base_name, 0) + 1)) @@ name_counters

\* mutant of FinalName: only the second and later occurrences get a suffix
FinalNameFromSecond(base_name, counter, selections) ==
    IF counter > 1 THEN base_name \o " " \o IntStr(counter) ELSE base_name

\* the final name of one body
FinalName(base_name, counter, selections) ==
    IF selections > 1 THEN base_name \o " " \o IntStr(counter) ELSE base_name

\* the loop over sorted_bodies, from position i on
RECURSIVE NamingLoop(_, _, _, _, _, _)
NamingLoop(i, sorted_bodies, candidates, selections, name_counters, generated_names) ==
    IF i > Len(sorted_bodies) THEN generated_names
    ELSE LET original_idx == sorted_bodies[i].item[1]
             p == DictGet(sorted_bodies[i].item[2], "properties", EmptyDict)
             base_name == select_best_name(p, candidates, name_counters)
             counters == CountName(name_counters, base_name)
             final_name == FinalName(base_name, counters[base_name],
                                     SelectionCount(base_name, selections))
         IN  NamingLoop(i + 1, sorted_bodies, candidates, selections, counters,
                        Append(generated_names, <<original_idx, final_name>>))

\* [name for _, name in generated_names]
RECURSIVE NamesOf(_)
NamesOf(generated_names) ==
    IF generated_names = <<>> THEN <<>>
    ELSE <<Head(generated_names)[2]>> \o NamesOf(Tail(generated_names))

\* [item for each keyed record]
RECURSIVE ItemsOf(_)
ItemsOf(keyed) ==
    IF keyed = <<>> THEN <<>> ELSE <<Head(keyed).item>> \o ItemsOf(Tail(keyed))

\* generated_names.sort(key=lambda x: x[0]); return [name for _, name in ...]
OriginalOrder(generated_names) ==
    NamesOf(ItemsOf(PySorted([i \in 1..Len(generated_names) |->
                [key |-> <<generated_names[i][1]>>, item |-> generated_names[i]]])))

\* mutant of generate_intelligent_names: name_counters is kept from the call
\* before instead of starting empty
generate_intelligent_names_carried(bodies, hint) ==
    IF bodies = <<>> THEN <<>>
    ELSE LET ctx == analyze_design_context(bodies)
             suggested_category == process_user_hint(hint, ctx)
             candidates == BaseNamesFor(suggested_category, ctx)
             sorted_bodies == SortedBodies(bodies)
             selections == FreshSelections(sorted_bodies, candidates)
             kept == IF last_call.op = "none" THEN EmptyDict
                     ELSE [n \in {selections[i] : i \in 1..Len(selections)} |->
                              SelectionCount(n, selections)]
         IN  OriginalOrder(NamingLoop(1, sorted_bodies, candidates, selections,
                                      kept, <<>>))

generate_intelligent_names(bodies, hint) ==
    IF bodies = <<>> THEN <<>>
    ELSE LET ctx == analyze_design_context(bodies)
             suggested_category == process_user_hint(hint, ctx)
             candidates == BaseNamesFor(suggested_category, ctx)
             sorted_bodies == SortedBodies(bodies)
         IN  OriginalOrder(NamingLoop(1, sorted_bodies, candidates,
                                      FreshSelections(sorted_bodies, candidates),
                                      EmptyDict, <<>>))

---------------------------------------------------------------------------
(* Inputs of the naming engine *)

\* a descriptor as analyze_body_characteristics builds it, reduced to the keys
\* the naming engine reads
Descriptor(max_dim, long_thin, cubic, flat, faces, cx) ==
    [max_dimension |-> max_dim, is_long_thin |-> long_thin, is_cubic |-> cubic,
     is_flat |-> flat, face_count |-> faces,
     complexity |-> IF faces < 10 THEN "simple"
                    ELSE IF faces < 50 THEN "complex" ELSE "very_complex",
     center_x |-> cx]

\* the descriptor of a body whose analysis failed
ErrorDescriptor == [error |-> "failed", analysis_failed |-> TRUE]

\* the descriptors the batches are drawn from: four plain bodies of different
\* size, a flat one, a cubic many-faced one off-centre, and an empty descriptor
BatchDescriptors ==
    {Descriptor(d, FALSE, FALSE, FALSE, 6, 0) : d \in {5, 30, 60, 1200}}
    \cup {Descriptor(80, FALSE, FALSE, TRUE, 6, 0)}
    \cup {Descriptor(60, FALSE, TRUE, FALSE, 25, -2)}
    \cup {EmptyDict}

\* the core descriptors: the plain bodies of size 5, 60 and 1200 and the cubic
\* one, which has the size of a plain one and lies to its left
CoreDescriptors ==
    {Descriptor(d, FALSE, FALSE, FALSE, 6, 0) : d \in {5, 60, 1200}}
    \cup {Descriptor(60, FALSE, TRUE, FALSE, 25, -2)}

\* the batches: lists of at most n body dicts
BatchesUpTo(n) ==
    UNION {[1..k -> {[properties |-> d] : d \in BatchDescriptors}] : k \in 0..n}

\* the batches of n bodies of the core descriptors
CoreBatches(n) == [1..n -> {[properties |-> d] : d \in CoreDescriptors}]

\* the hints every batch is named with
CommonHints == {"", "Brake pads", "Steel BEAM", "Just make it smart"}

\* further hints, tried on the batches of at most one body: keywords of several
\* sets at once, in upper case, inside other words, and of each set alone
MoreHints ==
    {"scary PCB", "wall table", "GEAR nut", "Wheel bearing", "electronic drawer",
     "Column of bolts", "machine screws", "CHAIR", "connector", "Lock nuts",
     "bra ke", "tab"}

Hints == CommonHints \cup MoreHints

\* the batch and hint of one run
NamingInputs ==
    (BatchesUpTo(MaxBatch) \X CommonHints)
    \cup (CoreBatches(MaxBatch + 1) \X {"", "Brake pads"})
    \cup (BatchesUpTo(1) \X MoreHints)

\* the labels analyze_design_context can return
Contexts == {ContextKeys[i] : i \in 1..Len(ContextKeys)} \cup {"general"}

\* no call made yet
NoCall == [op |-> "none"]

\* no rules document was written
NoFile == [status |-> "absent", doc |-> <<>>]

\* None where a shape is expected
NoShape ==
    [id |-> 0, kind |-> "None", start |-> <<0, 0>>, end |-> <<0, 0>>,
     center |-> <<0, 0>>, radius |-> 0]

\* a GeometryManager as __init__ leaves it
NoGeometry ==
    /\ shapes = <<>>
    /\ selected_shape = NoShape

\* the registry is empty, there is no rules document and no shape
NoUtilities ==
    /\ handlers = <<>>
    /\ rules_file = NoFile
    /\ NoGeometry

\* no design is open and no command was created
NoDialog ==
    /\ pc = "idle"
    /\ host = <<>>
    /\ renamer_bodies = <<>>
    /\ inputs = [suggested |-> <<>>, select |-> <<>>, magicBtn |-> FALSE,
                 clicked |-> FALSE, edits |-> 0]
    /\ renamed_count = 0
    /\ errors = <<>>
    /\ messages = <<>>

---------------------------------------------------------------------------
(* SpecNaming: the naming engine called on a batch and a hint *)

InitNaming ==
    /\ \E input \in NamingInputs :
          /\ bodies_data = input[1]
          /\ user_hint = input[2]
    /\ last_call = NoCall
    /\ NoDialog
    /\ NoUtilities

AnalyzeDesignContext ==
    /\ last_call.op \in {"none", "analyze_design_context"}
    /\ last_call' = [op |-> "analyze_design_context",
                     ret |-> analyze_design_context(bodies_data)]
    /\ UNCHANGED <<bodies_data, user_hint, dialogVars, utilVars>>

ProcessUserHint ==
    \E default_context \in Contexts :
        /\ last_call.op \in {"none", "_process_user_hint"}
        /\ last_call' = [op |-> "_process_user_hint",
                         default_context |-> default_context,
                         ret |-> process_user_hint(user_hint, default_context)]
        /\ UNCHANGED <<bodies_data, user_hint, dialogVars, utilVars>>

GenerateIntelligentNames ==
    /\ last_call.op \in {"none", "generate_intelligent_names"}
    /\ last_call' = [op |-> "generate_intelligent_names",
                     ret |-> generate_intelligent_names(bodies_data, user_hint)]
    /\ UNCHANGED <<bodies_data, user_hint, dialogVars, utilVars>>

NextNaming ==
    \/ AnalyzeDesignContext
    \/ ProcessUserHint
    \/ GenerateIntelligentNames

SpecNaming == InitNaming /\ [][NextNaming]_vars

---------------------------------------------------------------------------
(* SpecSelect: _select_best_name called on one descriptor and one candidate list *)

\* the descriptors handed to _select_best_name: every combination of a size
\* around the thresholds 50 and 100, the three shape flags and the complexity,
\* the empty descriptor, the error descriptor and one with a single key
SelectDescriptors ==
    {[max_dimension |-> d, is_long_thin |-> lt, is_cubic |-> cu, is_flat |-> fl,
      complexity |-> cx] :
        d \in {30, 50, 80, 100, 150}, lt \in BOOLEAN, cu \in BOOLEAN, fl \in BOOLEAN,
        cx \in {"simple", "complex"}}
    \cup {EmptyDict, ErrorDescriptor, [is_flat |-> TRUE]}

\* the candidate lists: the rule tables and every list of at most MaxCand
\* hand-made candidates
CandidateLists ==
    {naming_patterns[c] : c \in DOMAIN naming_patterns}
    \cup UNION {[1..k -> CandidatePool] : k \in 1..MaxCand}

InitSelect ==
    /\ bodies_data = <<>>
    /\ user_hint = ""
    /\ NoDialog
    /\ NoUtilities
    /\ \E p \in SelectDescriptors, c \in CandidateLists :
          last_call = [op |-> "call", props |-> p, base_names |-> c]

SelectBestName ==
    /\ last_call.op = "call"
    /\ last_call' = [op |-> "_select_best_name",
                     props |-> last_call.props,
                     base_names |-> last_call.base_names,
                     ret |-> select_best_name(last_call.props, last_call.base_names,
                                              EmptyDict)]
    /\ UNCHANGED <<bodies_data, user_hint, dialogVars, utilVars>>

NextSelect == SelectBestName

SpecSelect == InitSelect /\ [][NextSelect]_vars

---------------------------------------------------------------------------
(* C3: the name selector *)

\* the score of a candidate as the rules state it, on the lower-cased text
RuleScore(p, name) ==
    LET text == Lower(name)
        has(word) == Contains(word, text)
        max_dim == DictGet(p, "max_dimension", 0)
    IN  (IF has("large") \/ has("main") THEN (IF max_dim > 100 THEN 10 ELSE -5)
         ELSE IF has("small") \/ has("mini") THEN (IF max_dim < 50 THEN 10 ELSE -5)
         ELSE 0)
        + (IF DictGet(p, "is_long_thin", FALSE)
              /\ (has("shaft") \/ has("rod") \/ has("bar") \/ has("beam")) THEN 15 ELSE 0)
        + (IF DictGet(p, "is_cubic", FALSE)
              /\ (has("block") \/ has("cube") \/ has("housing")) THEN 15 ELSE 0)
        + (IF DictGet(p, "is_flat", FALSE)
              /\ (has("plate") \/ has("panel") \/ has("cover") \/ has("top")) THEN 15 ELSE 0)
        + (IF DictGet(p, "complexity", "simple") = "complex"
              /\ (has("housing") \/ has("assembly")) THEN 10 ELSE 0)

\* name is the first candidate of the list whose RuleScore is maximal
FirstBestScored(p, candidates, name) ==
    \E i \in 1..Len(candidates) :
        /\ candidates[i] = name
        /\ \A j \in 1..Len(candidates) :
              RuleScore(p, candidates[j]) <= RuleScore(p, name)
        /\ \A j \in 1..(i - 1) :
              RuleScore(p, candidates[j]) < RuleScore(p, name)

\* the body of the example: only is_flat set, max_dimension 80
IsFlatExample(p) ==
    /\ DOMAIN p # {}
    /\ DictGet(p, "max_dimension", 0) = 80
    /\ DictGet(p, "is_flat", FALSE)
    /\ ~DictGet(p, "is_long_thin", FALSE)
    /\ ~DictGet(p, "is_cubic", FALSE)
    /\ DictGet(p, "complexity", "simple") = "simple"

\* C3 as stated: for every descriptor, the empty one included, and every
\* non-empty candidate list, _select_best_name returns the first candidate
\* whose score is maximal.
C3_FirstBestForEveryDescriptor ==
    last_call.op = "_select_best_name" =>
        FirstBestScored(last_call.props, last_call.base_names, last_call.ret)

\* C3 amended: for every non-empty descriptor and every non-empty candidate
\* list, _select_best_name returns the first candidate in list order whose
\* score is maximal; for the empty descriptor it returns the first candidate
\* of the list without scoring; the flat body of size 80 gets 'Cover' from
\* 'Cover' and 'Shaft' in either order.
C3_FirstBestUnlessEmptyDescriptor ==
    last_call.op = "_select_best_name" =>
        /\ DOMAIN last_call.props # {} =>
              FirstBestScored(last_call.props, last_call.base_names, last_call.ret)
        /\ DOMAIN last_call.props = {} => last_call.ret = last_call.base_names[1]
        /\ (/\ IsFlatExample(last_call.props)
            /\ last_call.base_names \in {<<"Cover", "Shaft">>, <<"Shaft", "Cover">>})
           => last_call.ret = "Cover"

\* C3 witness: the flat body of size 80 was given 'Cover' from <<Shaft, Cover>>
C3_Witness ==
    /\ last_call.op = "_select_best_name"
    /\ IsFlatExample(last_call.props)
    /\ last_call.base_names = <<"Shaft", "Cover">>
    /\ last_call.ret = "Cover"

---------------------------------------------------------------------------
(* What the claims about the naming pass speak of *)

\* the descriptor of body i of the batch
PropsOf(i) == DictGet(bodies_data[i], "properties", EmptyDict)

\* the candidate list the naming pass of the batch and hint draws from
BatchCandidates ==
    LET ctx == analyze_design_context(bodies_data)
    IN  BaseNamesFor(process_user_hint(user_hint, ctx), ctx)

\* the base name each body of the batch selects on its own
RECURSIVE SelectionUpTo(_, _)
SelectionUpTo(n, candidates) ==
    IF n = 0 THEN <<>>
    ELSE Append(SelectionUpTo(n - 1, candidates),
                select_best_name(PropsOf(n), candidates, EmptyDict))

BatchSelection == SelectionUpTo(Len(bodies_data), BatchCandidates)

\* the text of a suffix number
SuffixText(k) == <<"1", "2", "3", "4", "5", "6", "7", "8", "9">>[k]

\* the names a base name may appear as: bare, or with a suffix up to k
Suffixed(base, k) == base \o " " \o SuffixText(k)

\* some keyword of the hint parser occurs in the lower-cased hint
HintMatches(hint, cat) ==
    \E i \in 1..Len(HintKeywords) :
        /\ HintKeywords[i].category = cat
        /\ \E w \in 1..Len(HintKeywords[i].words) :
              Contains(HintKeywords[i].words[w], Lower(hint))

\* the categories of the hint parser in the order the claim gives
CategoryOrder ==
    <<"automotive", "electronics", "furniture", "architecture", "mechanical_advanced",
      "fasteners">>

NoKeyword(hint) == \A c \in 1..Len(CategoryOrder) : ~HintMatches(hint, CategoryOrder[c])

\* the elements of a list
ListItems(list) == {list[i] : i \in 1..Len(list)}

\* name is a name of the list, bare or with a numeric suffix
DrawnFrom(name, list, n) ==
    \E b \in ListItems(list) : name = b \/ \E k \in 1..n : name = Suffixed(b, k)

Generated == last_call.op = "generate_intelligent_names"
Analyzed == last_call.op = "analyze_design_context"
HintProcessed == last_call.op = "_process_user_hint"

---------------------------------------------------------------------------
(* C1: collision suffixing *)

\* C1: in the output of generate_intelligent_names a base name selected by
\* k >= 2 bodies appears only as "<base> 1" .. "<base> k", each exactly once
\* and never bare; a base name selected by exactly one body appears bare.
C1_CollisionSuffixing ==
    Generated =>
        LET sel == BatchSelection
            ret == last_call.ret
            n == Len(bodies_data)
            group(b) == {j \in 1..n : sel[j] = b}
        IN  /\ Len(ret) = n
            /\ \A i \in 1..n :
                  LET k == Cardinality(group(sel[i]))
                  IN  IF k = 1 THEN ret[i] = sel[i]
                      ELSE /\ ret[i] # sel[i]
                           /\ \E m \in 1..k : ret[i] = Suffixed(sel[i], m)
                           /\ \A m \in 1..k :
                                 Cardinality({j \in group(sel[i]) :
                                                ret[j] = Suffixed(sel[i], m)}) = 1

\* C1 witness: one base name selected by two bodies and another by one body
C1_Witness ==
    /\ Generated
    /\ Len(bodies_data) = 3
    /\ \E i, j, l \in 1..3 :
          /\ i # j
          /\ BatchSelection[i] = BatchSelection[j]
          /\ BatchSelection[l] # BatchSelection[i]
          /\ last_call.ret[i] = Suffixed(BatchSelection[i], 1)
          /\ last_call.ret[j] = Suffixed(BatchSelection[i], 2)
          /\ last_call.ret[l] = BatchSelection[l]

---------------------------------------------------------------------------
(* C2: the worked example of the context classifier *)

\* the batch of the example: three descriptors with max_dimension 5, 60 and
\* 1200 in some order, no shape flag set, face_count not above 20
IsExampleBatch(bodies) ==
    /\ Len(bodies) = 3
    /\ {DictGet(DictGet(bodies[i], "properties", EmptyDict), "max_dimension", 0) :
            i \in 1..3} = {5, 60, 1200}
    /\ \A i \in 1..3 :
          LET p == DictGet(bodies[i], "properties", EmptyDict)
          IN  /\ DOMAIN p # {}
              /\ ~DictGet(p, "is_long_thin", FALSE)
              /\ ~DictGet(p, "is_flat", FALSE)
              /\ DictGet(p, "face_count", 0) <= 20

\* C2 as stated: the example batch is classified 'architecture'.
C2_ExampleIsArchitecture ==
    (Analyzed /\ IsExampleBatch(bodies_data)) => last_call.ret = "architecture"

\* C2 amended: the example batch is classified 'mechanical': the accumulators
\* of mechanical, electronics and architecture tie at 2 and mechanical is the
\* first of them.
C2_ExampleIsMechanical ==
    (Analyzed /\ IsExampleBatch(bodies_data)) =>
        /\ last_call.ret = "mechanical"
        /\ ContextScores(ZeroContexts, bodies_data) =
              [mechanical |-> 2, automotive |-> 1, electronics |-> 2,
               furniture |-> 1, architecture |-> 2]

\* C2 witness: the example batch, in the order 5, 60, 1200, was classified
C2_Witness ==
    /\ Analyzed
    /\ IsExampleBatch(bodies_data)
    /\ PropsOf(1).max_dimension = 5
    /\ PropsOf(3).max_dimension = 1200
    /\ last_call.ret = "mechanical"

---------------------------------------------------------------------------
(* C4: the hint parser *)

\* C4: a non-empty hint resolves to the first category, in the order
\* automotive, electronics, furniture, architecture, mechanical_advanced,
\* fasteners, one of whose keywords occurs in the lower-cased hint, whatever
\* the context; a hint containing 'brake' resolves to 'automotive' for all
\* five contexts and 'general', and the naming pass then draws every base
\* name from the automotive list.
C4_HintCategory ==
    /\ (HintProcessed /\ user_hint # "") =>
          /\ \A c \in 1..Len(CategoryOrder) :
                (/\ HintMatches(user_hint, CategoryOrder[c])
                 /\ \A b \in 1..(c - 1) : ~HintMatches(user_hint, CategoryOrder[b]))
                => last_call.ret = CategoryOrder[c]
          /\ Contains("brake", Lower(user_hint)) => last_call.ret = "automotive"
    /\ (Generated /\ Contains("brake", Lower(user_hint))) =>
          \A i \in 1..Len(last_call.ret) :
              DrawnFrom(last_call.ret[i], naming_patterns["automotive"], Len(bodies_data))

\* C4 witness: a batch whose context is 'furniture' was named under a hint
\* containing 'Brake'
C4_Witness ==
    /\ Generated
    /\ Contains("brake", Lower(user_hint))
    /\ Len(bodies_data) >= 2
    /\ analyze_design_context(bodies_data) = "furniture"
    /\ last_call.ret[1] \in ListItems(naming_patterns["automotive"])

---------------------------------------------------------------------------
(* C5: the classifier is pure and order-independent *)

\* the batch with its bodies in the order perm
Reordered(bodies, perm) == [i \in 1..Len(bodies) |-> bodies[perm[i]]]

\* C5: analyze_design_context returns the same label for every permutation
\* of the batch, returns the same label when called again, and leaves the
\* batch unchanged.
C5_PureOrderIndependent ==
    [][last_call'.op = "analyze_design_context" =>
          /\ bodies_data' = bodies_data
          /\ Analyzed => last_call'.ret = last_call.ret
          /\ \A perm \in Permutations(1..Len(bodies_data)) :
                analyze_design_context(Reordered(bodies_data, perm)) = last_call'.ret
      ]_vars

\* C5 witness: a batch of three different bodies was classified as automotive
C5_Witness ==
    /\ Analyzed
    /\ Len(bodies_data) = 3
    /\ Cardinality({bodies_data[i] : i \in 1..3}) = 3
    /\ last_call.ret = "automotive"

---------------------------------------------------------------------------
(* C6: the classifier returns the first context of maximal accumulator *)

\* how many bodies of the batch satisfy a condition on their descriptor
HowMany(Cond(_)) == Cardinality({i \in 1..Len(bodies_data) : Cond(PropsOf(i))})

\* the accumulator of each context, summed rule by rule over the batch
Accumulator(k) ==
    LET dim(p) == DictGet(p, "max_dimension", 0)
        tiny(p) == dim(p) < 10
        medium(p) == 50 < dim(p) /\ dim(p) < 500
        huge(p) == dim(p) > 1000
        long(p) == DictGet(p, "is_long_thin", FALSE)
        faces(p) == DictGet(p, "face_count", 0) > 20
        flat(p) == DictGet(p, "is_flat", FALSE)
    IN  CASE k = "mechanical" -> HowMany(tiny) + HowMany(medium) + HowMany(long)
          [] k = "automotive" -> HowMany(medium) + HowMany(faces)
          [] k = "electronics" -> 2 * HowMany(tiny) + HowMany(flat)
          [] k = "furniture" -> HowMany(medium) + HowMany(flat)
          [] k = "architecture" -> 2 * HowMany(huge)

\* C6: for a non-empty batch the returned context has a maximal accumulator
\* and is the first such context in the order mechanical, automotive,
\* electronics, furniture, architecture; a batch that scores nothing yields
\* 'mechanical'.
C6_FirstMaximalContext ==
    (Analyzed /\ bodies_data # <<>>) =>
        LET order == <<"mechanical", "automotive", "electronics", "furniture",
                       "architecture">>
        IN  \E r \in 1..5 :
              /\ last_call.ret = order[r]
              /\ \A k \in 1..5 : Accumulator(order[k]) <= Accumulator(order[r])
              /\ \A k \in 1..(r - 1) : Accumulator(order[k]) < Accumulator(order[r])
              /\ (\A k \in 1..5 : Accumulator(order[k]) = 0) => r = 1

\* C6 witness: electronics and architecture tie for the maximum and electronics,
\* the earlier one, is returned
C6_Witness ==
    /\ Analyzed
    /\ bodies_data # <<>>
    /\ Accumulator("electronics") = Accumulator("architecture")
    /\ Accumulator("electronics") > Accumulator("mechanical")
    /\ Accumulator("electronics") > Accumulator("automotive")
    /\ last_call.ret = "electronics"

---------------------------------------------------------------------------
(* C7: one name per body, numbered by size and position *)

\* body j comes before body i in the order (max_dimension, center_x), input
\* order deciding between equal keys
ComesBefore(j, i) ==
    LET dj == DictGet(PropsOf(j), "max_dimension", 0)
        di == DictGet(PropsOf(i), "max_dimension", 0)
        xj == DictGet(PropsOf(j), "center_x", 0)
        xi == DictGet(PropsOf(i), "center_x", 0)
    IN  \/ dj < di
        \/ dj = di /\ xj < xi
        \/ dj = di /\ xj = xi /\ j < i

\* two bodies that share a base name have the same max_dimension and center_x
HasKeyTie ==
    LET sel == BatchSelection
    IN  \E i, j \in 1..Len(bodies_data) :
        /\ i # j
        /\ sel[i] = sel[j]
        /\ DictGet(PropsOf(j), "max_dimension", 0) = DictGet(PropsOf(i), "max_dimension", 0)
        /\ DictGet(PropsOf(j), "center_x", 0) = DictGet(PropsOf(i), "center_x", 0)

\* C7: generate_intelligent_names returns one name per body at the body's
\* input position; among the bodies sharing a base name the suffix numbers
\* ascend with (max_dimension, center_x), input order deciding between equal
\* keys; and the name each body gets is the same in whatever order the
\* bodies are passed in, unless two bodies sharing a base name have equal
\* keys.
C7_NumberedBySizeAndPosition ==
    Generated =>
        LET sel == BatchSelection
            ret == last_call.ret
            n == Len(bodies_data)
            group(i) == {j \in 1..n : sel[j] = sel[i]}
            rank(i) == 1 + Cardinality({j \in group(i) : j # i /\ ComesBefore(j, i)})
        IN  /\ Len(ret) = n
            /\ \A i \in 1..n :
                  ret[i] = IF Cardinality(group(i)) > 1
                           THEN Suffixed(sel[i], rank(i)) ELSE sel[i]
            /\ ~HasKeyTie =>
                  \A perm \in Permutations(1..n) :
                      generate_intelligent_names(Reordered(bodies_data, perm), user_hint)
                          = [i \in 1..n |-> ret[perm[i]]]

\* C7 witness: the larger of two bodies sharing a base name was passed in
\* first and is numbered 2, and of two bodies of equal size the one passed in
\* last, further to the left, is numbered before the other
C7_Witness ==
    /\ Generated
    /\ Len(bodies_data) = 3
    /\ ~HasKeyTie
    /\ BatchSelection[1] = BatchSelection[2]
    /\ BatchSelection[1] = BatchSelection[3]
    /\ DictGet(PropsOf(1), "max_dimension", 0) > DictGet(PropsOf(2), "max_dimension", 0)
    /\ DictGet(PropsOf(2), "max_dimension", 0) = DictGet(PropsOf(3), "max_dimension", 0)
    /\ DictGet(PropsOf(3), "center_x", 0) < DictGet(PropsOf(2), "center_x", 0)
    /\ last_call.ret = <<Suffixed(BatchSelection[1], 3), Suffixed(BatchSelection[1], 2),
                         Suffixed(BatchSelection[1], 1)>>

---------------------------------------------------------------------------
(* C8: the fallback to the mechanical_basic list *)

\* C8: an empty hint or one matching no keyword set resolves to
\* '<context>_basic', and for every detected context the naming pass then
\* draws every base name from the mechanical_basic list.
C8_BasicFallback ==
    /\ (HintProcessed /\ (user_hint = "" \/ NoKeyword(user_hint))) =>
          last_call.ret = last_call.default_context \o "_basic"
    /\ (Generated /\ (user_hint = "" \/ NoKeyword(user_hint))) =>
          /\ BatchCandidates = naming_patterns["mechanical_basic"]
          /\ \A i \in 1..Len(last_call.ret) :
                /\ BatchSelection[i] \in ListItems(naming_patterns["mechanical_basic"])
                /\ DrawnFrom(last_call.ret[i], naming_patterns["mechanical_basic"],
                             Len(bodies_data))

\* C8 witness: a batch whose context is 'architecture' was named under a hint
\* that matches no keyword set
C8_Witness ==
    /\ Generated
    /\ user_hint # ""
    /\ NoKeyword(user_hint)
    /\ analyze_design_context(bodies_data) = "architecture"
    /\ Len(bodies_data) >= 2
    /\ last_call.ret[1] \in {"Shaft", "Shaft 1", "Shaft 2"}

---------------------------------------------------------------------------
(* analyze_body_characteristics: the descriptor of one host body *)

\* A host body is a record of what each attribute read gives.  The status of
\* physicalProperties, boundingBox and faces is "ok", "missing" (hasattr is
\* false) or "raises" (the read raises an exception hasattr lets through);
\* boundingBox can also be "none" (a falsy box).  Lengths are integers.

Abs(x) == IF x < 0 THEN -x ELSE x

Max3(a, b, c) == IF a >= b /\ a >= c THEN a ELSE IF b >= c THEN b ELSE c

Min3(a, b, c) == IF a <= b /\ a <= c THEN a ELSE IF b <= c THEN b ELSE c

\* the reads inside the try block that raise
ReadRaises(body) ==
    \/ body.physicalProperties.status = "raises"
    \/ body.boundingBox.status = "raises"
    \/ body.faces.status = "raises"

\* 'volume', 'area' and 'mass'
BasicProperties(body) ==
    IF body.physicalProperties.status = "ok"
    THEN [volume |-> body.physicalProperties.volume,
          area |-> body.physicalProperties.area,
          mass |-> body.physicalProperties.mass]
    ELSE EmptyDict

\* mutant of BoundingBoxAnalysis: the aspect ratio is max / min, which raises
\* ZeroDivisionError on a box with a zero extent
BoundingBoxAnalysisUnguarded(body) ==
    IF body.boundingBox.status = "ok"
    THEN LET bbox == body.boundingBox
             width == Abs(bbox.maxPoint[1] - bbox.minPoint[1])
             height == Abs(bbox.maxPoint[2] - bbox.minPoint[2])
             depth == Abs(bbox.maxPoint[3] - bbox.minPoint[3])
             max_dimension == Max3(width, height, depth)
             min_dimension == Min3(width, height, depth)
         IN  IF min_dimension = 0 THEN ErrorDescriptor
             ELSE [width |-> width, height |-> height, depth |-> depth,
                   max_dimension |-> max_dimension,
                   min_dimension |-> min_dimension,
                   aspect_ratio |-> <<1000 * max_dimension, 1000 * min_dimension>>,
                   is_long_thin |-> max_dimension > 3 * min_dimension,
                   is_cubic |-> /\ 10 * Abs(width - height) < width
                                /\ 10 * Abs(width - depth) < width,
                   is_flat |-> 10 * min_dimension < max_dimension]
    ELSE EmptyDict

\* mutant of BoundingBoxAnalysis: a body is long and thin only when its largest
\* extent is more than 20 times the smallest
BoundingBoxAnalysisSlender(body) ==
    IF body.boundingBox.status = "ok"
    THEN LET bbox == body.boundingBox
             width == Abs(bbox.maxPoint[1] - bbox.minPoint[1])
             height == Abs(bbox.maxPoint[2] - bbox.minPoint[2])
             depth == Abs(bbox.maxPoint[3] - bbox.minPoint[3])
             max_dimension == Max3(width, height, depth)
             min_dimension == Min3(width, height, depth)
         IN  [width |-> width, height |-> height, depth |-> depth,
              max_dimension |-> max_dimension,
              min_dimension |-> min_dimension,
              aspect_ratio |-> <<1000 * max_dimension, 1000 * min_dimension + 1>>,
              is_long_thin |-> max_dimension > 20 * min_dimension,
              is_cubic |-> /\ 10 * Abs(width - height) < width
                           /\ 10 * Abs(width - depth) < width,
              is_flat |-> 10 * min_dimension < max_dimension]
    ELSE EmptyDict

\* the bounding box analysis; aspect_ratio max / (min + 0.001) is kept as the
\* pair <<numerator, denominator>> of 1000 max / (1000 min + 1)
BoundingBoxAnalysis(body) ==
    IF body.boundingBox.status = "ok"
    THEN LET bbox == body.boundingBox
             width == Abs(bbox.maxPoint[1] - bbox.minPoint[1])
             height == Abs(bbox.maxPoint[2] - bbox.minPoint[2])
             depth == Abs(bbox.maxPoint[3] - bbox.minPoint[3])
             max_dimension == Max3(width, height, depth)
             min_dimension == Min3(width, height, depth)
         IN  [width |-> width, height |-> height, depth |-> depth,
              max_dimension |-> max_dimension,
              min_dimension |-> min_dimension,
              aspect_ratio |-> <<1000 * max_dimension, 1000 * min_dimension + 1>>,
              is_long_thin |-> max_dimension > 3 * min_dimension,
              is_cubic |-> /\ 10 * Abs(width - height) < width
                           /\ 10 * Abs(width - depth) < width,
              is_flat |-> 10 * min_dimension < max_dimension]
    ELSE EmptyDict

\* 'face_count' and 'complexity'
FaceAnalysis(body) ==
    IF body.faces.status = "ok"
    THEN LET face_count == body.faces.count
         IN  [face_count |-> face_count,
              complexity |-> IF face_count < 10 THEN "simple"
                             ELSE IF face_count < 50 THEN "complex"
                             ELSE "very_complex"]
    ELSE EmptyDict

\* the position analysis: center is minPoint translated by the vector from
\* maxPoint to minPoint and scaled by 0.5; the corners have even coordinates
PositionAnalysis(body) ==
    IF body.boundingBox.status = "ok"
    THEN LET bbox == body.boundingBox
             center == [a \in 1..3 |->
                           (bbox.minPoint[a] + (bbox.minPoint[a] - bbox.maxPoint[a])) \div 2]
         IN  [center_x |-> center[1], center_y |-> center[2], center_z |-> center[3],
              is_centered |-> Abs(center[1]) < 1 /\ Abs(center[2]) < 1,
              quadrant |-> IF center[1] > 0 /\ center[2] > 0
                           THEN "positive" ELSE "negative"]
    ELSE EmptyDict

\* mutant of analyze_body_characteristics: a failed read gives an empty descriptor
analyze_body_characteristics_silent(body) ==
    IF ReadRaises(body) THEN EmptyDict
    ELSE BasicProperties(body) @@ BoundingBoxAnalysis(body)
         @@ FaceAnalysis(body) @@ PositionAnalysis(body)

\* analyze_body_characteristics(body)
analyze_body_characteristics(body) ==
    IF ReadRaises(body) THEN ErrorDescriptor
    ELSE BasicProperties(body) @@ BoundingBoxAnalysis(body)
         @@ FaceAnalysis(body) @@ PositionAnalysis(body)

---------------------------------------------------------------------------
(* get_bodies_with_analysis: the batch of the active design *)

\* self.bodies: the visible bodies of the design, as positions in host
RECURSIVE VisibleFrom(_, _)
VisibleFrom(h, i) ==
    IF i > Len(h) THEN <<>>
    ELSE IF h[i].isVisible THEN <<i>> \o VisibleFrom(h, i + 1)
    ELSE VisibleFrom(h, i + 1)

VisibleBodies(h) == VisibleFrom(h, 1)

\* the loop over enumerate(self.bodies): one dict per visible body
RECURSIVE AnalyzeFrom(_, _, _)
AnalyzeFrom(h, visible, i) ==
    IF i > Len(visible) THEN <<>>
    ELSE <<[index |-> i - 1,
            name |-> h[visible[i]].name,
            body |-> visible[i],
            properties |-> analyze_body_characteristics(h[visible[i]])]>>
         \o AnalyzeFrom(h, visible, i + 1)

\* get_bodies_with_analysis()
get_bodies_with_analysis(h) == AnalyzeFrom(h, VisibleBodies(h), 1)

---------------------------------------------------------------------------
(* The command dialog *)

\* str.strip() for the blank
RECURSIVE Strip(_)
Strip(s) ==
    IF s = "" THEN ""
    ELSE IF SubSeq(s, 1, 1) = " " THEN Strip(SubSeq(s, 2, Len(s)))
    ELSE IF SubSeq(s, Len(s), Len(s)) = " " THEN Strip(SubSeq(s, 1, Len(s) - 1))
    ELSE s

\* "\n".join(lines)
RECURSIVE Join(_)
Join(lines) ==
    IF lines = <<>> THEN ""
    ELSE IF Len(lines) = 1 THEN lines[1]
    ELSE lines[1] \o "\n" \o Join(Tail(lines))

\* lines[:n]
FirstN(lines, n) == SubSeq(lines, 1, IF Len(lines) < n THEN Len(lines) ELSE n)

\* seconds the success message counts per renamed body
SecondsSaved == 30
\* how many errors the message after a partly successful run lists
DetailsShown == 5
\* how many errors the message after a failed run lists
FailuresShown == 3

\* str(e) of the exception a refused name write raises
WriteError == "name rejected"

\* show_error, show_success and show_info: one message box
show_error(message) == [kind |-> "error", text |-> "Error: " \o message]
show_success(message) == [kind |-> "success", text |-> message]
show_info(message) == [kind |-> "info", text |-> message]

\* the command inputs before the table has rows
NoInputs ==
    [suggested |-> <<>>, select |-> <<>>, magicBtn |-> FALSE,
     clicked |-> FALSE, edits |-> 0]

\* the rows the command-created handler adds: suggested_i holds the current
\* name and select_i is checked
RECURSIVE NamesFrom(_)
NamesFrom(data) ==
    IF data = <<>> THEN <<>> ELSE <<Head(data).name>> \o NamesFrom(Tail(data))

RECURSIVE AllChecked(_)
AllChecked(data) ==
    IF data = <<>> THEN <<>> ELSE <<TRUE>> \o AllChecked(Tail(data))

TableRows(data) ==
    [suggested |-> NamesFrom(data), select |-> AllChecked(data),
     magicBtn |-> FALSE, clicked |-> FALSE, edits |-> 0]

\* mutant of ExecuteLoop: the try block encloses the loop, so the first failed
\* write ends it
RECURSIVE ExecuteLoopAbort(_, _, _, _, _, _)
ExecuteLoopAbort(i, data, table, h, count, errs) ==
    IF i > Len(data) THEN [host |-> h, renamed_count |-> count, errors |-> errs]
    ELSE LET body == data[i].body
             new_name == Strip(table.suggested[i])
         IN  IF ~table.select[i] \/ new_name = "" \/ new_name = h[body].name
             THEN ExecuteLoopAbort(i + 1, data, table, h, count, errs)
             ELSE IF h[body].name_write = "raises"
             THEN [host |-> h, renamed_count |-> count,
                   errors |-> Append(errs, "Body " \o IntStr(i - 1) \o ": " \o WriteError)]
             ELSE ExecuteLoopAbort(i + 1, data, table,
                                   [h EXCEPT ![body].name = new_name], count + 1, errs)

\* mutant of ExecuteLoop: the 'select' checkbox is not consulted
RECURSIVE ExecuteLoopUnchecked(_, _, _, _, _, _)
ExecuteLoopUnchecked(i, data, table, h, count, errs) ==
    IF i > Len(data) THEN [host |-> h, renamed_count |-> count, errors |-> errs]
    ELSE LET body == data[i].body
             new_name == Strip(table.suggested[i])
         IN  IF new_name = "" \/ new_name = h[body].name
             THEN ExecuteLoopUnchecked(i + 1, data, table, h, count, errs)
             ELSE IF h[body].name_write = "raises"
             THEN ExecuteLoopUnchecked(i + 1, data, table, h, count,
                              Append(errs, "Body " \o IntStr(i - 1) \o ": " \o WriteError))
             ELSE ExecuteLoopUnchecked(i + 1, data, table,
                              [h EXCEPT ![body].name = new_name], count + 1, errs)

\* the loop of the execute callback from row i on: the host's bodies, the
\* renamed count and the error list it ends with
RECURSIVE ExecuteLoop(_, _, _, _, _, _)
ExecuteLoop(i, data, table, h, count, errs) ==
    IF i > Len(data) THEN [host |-> h, renamed_count |-> count, errors |-> errs]
    ELSE LET body == data[i].body
             new_name == Strip(table.suggested[i])
         IN  IF ~table.select[i] \/ new_name = "" \/ new_name = h[body].name
             THEN ExecuteLoop(i + 1, data, table, h, count, errs)
             ELSE IF h[body].name_write = "raises"
             THEN ExecuteLoop(i + 1, data, table, h, count,
                              Append(errs, "Body " \o IntStr(i - 1) \o ": " \o WriteError))
             ELSE ExecuteLoop(i + 1, data, table,
                              [h EXCEPT ![body].name = new_name], count + 1, errs)

\* the message boxes the execute callback ends with
ResultMessages(count, errs) ==
    IF count > 0
    THEN <<show_success("AI Renaming Complete! Successfully renamed "
                        \o IntStr(count) \o " bodies, "
                        \o IntStr(count * SecondsSaved) \o " seconds saved"
                        \o (IF errs # <<>>
                            THEN ", minor issues with " \o IntStr(Len(errs)) \o " bodies"
                            ELSE ""))>>
         \o (IF errs # <<>>
             THEN <<show_info("Error Details:\n" \o Join(FirstN(errs, DetailsShown)))>>
             ELSE <<>>)
    ELSE IF errs # <<>>
    THEN <<show_error("Renaming failed for all bodies:\n"
                      \o Join(FirstN(errs, FailuresShown)))>>
    ELSE <<show_info("No changes were made. Select bodies and set names to apply changes.")>>

---------------------------------------------------------------------------
(* Spec: the dialog opened on a design of the host *)

\* a bounding box of the given extents whose min corner is at (ox, 0, 0)
Box(dx, dy, dz, ox) ==
    [status |-> "ok", minPoint |-> <<ox, 0, 0>>, maxPoint |-> <<ox + dx, dy, dz>>]

\* a bounding box whose read raises
BrokenBox == [status |-> "raises", minPoint |-> <<0, 0, 0>>, maxPoint |-> <<0, 0, 0>>]

HostBody(name, visible, phys, bbox, face_status, face_count, write) ==
    [name |-> name, isVisible |-> visible,
     physicalProperties |-> [status |-> phys, volume |-> 8, area |-> 24, mass |-> 8],
     boundingBox |-> bbox,
     faces |-> [status |-> face_status, count |-> face_count],
     name_write |-> write]

\* the bodies the designs are made of: a cube, a body whose bounding box cannot
\* be read, a plate without physical properties that refuses a new name, and a
\* hidden body
Cube == HostBody("Body1", TRUE, "ok", Box(60, 60, 60, 0), "ok", 6, "ok")
Unreadable == HostBody("Body2", TRUE, "ok", BrokenBox, "ok", 6, "ok")
Plate == HostBody("Plate", TRUE, "missing", Box(80, 40, 2, 10), "ok", 12, "raises")
Hidden == HostBody("Body4", FALSE, "ok", Box(60, 60, 60, 0), "ok", 6, "ok")

BodyPool == {Cube, Unreadable, Plate, Hidden}

CoreBodies == {Cube, Plate}

\* the designs: every list of at most MaxBodies bodies of the pool and every
\* list of MaxBodies + 1 core bodies
Designs ==
    UNION {[1..k -> BodyPool] : k \in 0..MaxBodies} \cup [1..(MaxBodies + 1) -> CoreBodies]

\* the hints the user types into 'aiPrompt'
DialogHints == {"", "Steel beam"}

\* the texts the user types into a suggestion
EditTexts == {"  ", " Lid "}

Init ==
    /\ host \in Designs
    /\ pc = "idle"
    /\ bodies_data = <<>>
    /\ user_hint = ""
    /\ last_call = NoCall
    /\ renamer_bodies = <<>>
    /\ inputs = NoInputs
    /\ renamed_count = 0
    /\ errors = <<>>
    /\ messages = <<>>
    /\ handlers = <<"cmd_created_handler">>
    /\ rules_file = NoFile
    /\ NoGeometry

\* AIRenamerCommandCreatedHandler.notify
CommandCreated ==
    /\ pc = "idle"
    /\ LET data == get_bodies_with_analysis(host)
       IN  /\ renamer_bodies' = VisibleBodies(host)
           /\ IF data = <<>>
              THEN /\ messages' = <<show_error("No visible bodies found. Create some bodies first!")>>
                   /\ UNCHANGED <<bodies_data, inputs, pc, handlers>>
              ELSE /\ bodies_data' = data
                   /\ inputs' = TableRows(data)
                   /\ pc' = "dialog"
                   /\ messages' = <<>>
                   /\ handlers' = handlers \o <<"execute_handler", "input_handler",
                                                "destroy_handler">>
    /\ UNCHANGED <<user_hint, last_call, host, renamed_count, errors, rules_file,
                   geometryVars>>

\* the user types a hint; AIRenamerInputChangedHandler.notify takes no branch
TypeHint ==
    \E hint \in DialogHints :
        /\ pc = "dialog"
        /\ user_hint' = hint
        /\ messages' = <<>>
        /\ UNCHANGED <<bodies_data, last_call, pc, host, renamer_bodies, inputs,
                       renamed_count, errors, utilVars>>

\* mutant of ClickMagic: the names are generated without the hint
ClickMagicNoHint ==
    /\ pc = "dialog"
    /\ LET suggested_names == generate_intelligent_names(bodies_data, "")
       IN  inputs' = [inputs EXCEPT !.suggested = suggested_names,
                                    !.magicBtn = FALSE,
                                    !.clicked = TRUE]
    /\ messages' = <<>>
    /\ UNCHANGED <<bodies_data, user_hint, last_call, pc, host, renamer_bodies,
                   renamed_count, errors, utilVars>>

\* the user presses 'AI Auto-Name': AIRenamerInputChangedHandler.notify runs
\* handle_ai_magic and resets the button
ClickMagic ==
    /\ pc = "dialog"
    /\ LET suggested_names == generate_intelligent_names(bodies_data, user_hint)
       IN  inputs' = [inputs EXCEPT !.suggested = suggested_names,
                                    !.magicBtn = FALSE,
                                    !.clicked = TRUE]
    /\ messages' = <<>>
    /\ UNCHANGED <<bodies_data, user_hint, last_call, pc, host, renamer_bodies,
                   renamed_count, errors, utilVars>>

\* the user edits suggested_i; AIRenamerInputChangedHandler.notify takes no branch
EditSuggested ==
    \E i \in 1..Len(inputs.suggested), text \in EditTexts :
        /\ pc = "dialog"
        /\ inputs.edits < MaxEdits
        /\ inputs' = [inputs EXCEPT !.suggested[i] = text, !.edits = @ + 1]
        /\ messages' = <<>>
        /\ UNCHANGED <<bodies_data, user_hint, last_call, pc, host, renamer_bodies,
                       renamed_count, errors, utilVars>>

\* the user toggles select_i; AIRenamerInputChangedHandler.notify takes no branch
ToggleSelect ==
    \E i \in 1..Len(inputs.select) :
        /\ pc = "dialog"
        /\ inputs.edits < MaxEdits
        /\ inputs' = [inputs EXCEPT !.select[i] = ~@, !.edits = @ + 1]
        /\ messages' = <<>>
        /\ UNCHANGED <<bodies_data, user_hint, last_call, pc, host, renamer_bodies,
                       renamed_count, errors, utilVars>>

\* the user confirms: AIRenamerExecuteHandler.notify
Execute ==
    /\ pc = "dialog"
    /\ LET done == ExecuteLoop(1, bodies_data, inputs, host, 0, <<>>)
       IN  /\ host' = done.host
           /\ renamed_count' = done.renamed_count
           /\ errors' = done.errors
           /\ messages' = ResultMessages(done.renamed_count, done.errors)
    /\ pc' = "executed"
    /\ UNCHANGED <<bodies_data, user_hint, last_call, renamer_bodies, inputs, utilVars>>

Next ==
    \/ CommandCreated
    \/ TypeHint
    \/ ClickMagic
    \/ EditSuggested
    \/ ToggleSelect
    \/ Execute

Spec == Init /\ [][Next]_vars

---------------------------------------------------------------------------
(* C9: a measurement failure is isolated per body *)

\* reading one of the measured attributes of the body raises
MeasurementFails(body) ==
    \E status \in {body.physicalProperties.status, body.boundingBox.status,
                   body.faces.status} : status = "raises"

\* the keys the analyzer sets from measurements
MeasuredFields ==
    {"volume", "area", "mass", "width", "height", "depth", "max_dimension",
     "min_dimension", "aspect_ratio", "is_long_thin", "is_cubic", "is_flat",
     "face_count", "complexity", "center_x", "center_y", "center_z",
     "is_centered", "quadrant"}

\* a default body: max_dimension 0, no shape flags, complexity simple
DefaultDescriptor ==
    [max_dimension |-> 0, is_long_thin |-> FALSE, is_cubic |-> FALSE,
     is_flat |-> FALSE, complexity |-> "simple"]

\* the batch with the descriptor of every failed body replaced by the default one
RECURSIVE FailedAsDefault(_)
FailedAsDefault(data) ==
    IF data = <<>> THEN <<>>
    ELSE <<IF MeasurementFails(host[Head(data).body])
           THEN [Head(data) EXCEPT !.properties = DefaultDescriptor]
           ELSE Head(data)>>
         \o FailedAsDefault(Tail(data))

\* the positions of the visible bodies of the design
VisiblePositions == {b \in 1..Len(host) : host[b].isVisible}

\* a step in which 'AI Auto-Name' was handled
MagicHandled ==
    /\ pc = "dialog" /\ pc' = "dialog"
    /\ inputs'.clicked
    /\ inputs'.edits = inputs.edits
    /\ user_hint' = user_hint

\* C9: when reading a measured attribute of a body raises,
\* analyze_body_characteristics returns a descriptor with the error marker and
\* no measured field; the batch of get_bodies_with_analysis still has one entry
\* for every visible body, in order; and 'AI Auto-Name' still suggests one name
\* per body, the names being those of the batch in which every failed body is
\* a default body.
C9_MeasurementFailureIsolated ==
    /\ [](/\ \A b \in 1..Len(host) :
                MeasurementFails(host[b]) =>
                    LET d == analyze_body_characteristics(host[b])
                    IN  /\ "error" \in DOMAIN d
                        /\ DOMAIN d \cap MeasuredFields = {}
          /\ pc # "idle" =>
                /\ Len(bodies_data) = Cardinality(VisiblePositions)
                /\ \A k \in 1..Len(bodies_data) :
                      /\ bodies_data[k].body \in VisiblePositions
                      /\ bodies_data[k].index = k - 1
                      /\ k > 1 => bodies_data[k - 1].body < bodies_data[k].body
                      /\ MeasurementFails(host[bodies_data[k].body])
                            => "error" \in DOMAIN bodies_data[k].properties)
    /\ [][MagicHandled =>
            /\ Len(inputs'.suggested) = Len(bodies_data)
            /\ inputs'.suggested =
                  generate_intelligent_names(FailedAsDefault(bodies_data), user_hint)
         ]_vars

\* C9 witness: 'AI Auto-Name' was pressed under an architecture hint on a batch
\* that holds a body whose measurement failed and a body whose measurement
\* succeeded; both have a suggested name that is not their current one, and the
\* failed body's is not the first candidate 'Main Beam', which a default body
\* scores below the others
C9_Witness ==
    /\ pc = "dialog"
    /\ inputs.clicked
    /\ inputs.edits = 0
    /\ Contains("beam", Lower(user_hint))
    /\ \A j \in 1..Len(bodies_data) :
          MeasurementFails(host[bodies_data[j].body])
              => ~Contains("Main", inputs.suggested[j])
    /\ \E j, k \in 1..Len(bodies_data) :
          /\ MeasurementFails(host[bodies_data[j].body])
          /\ "error" \in DOMAIN bodies_data[j].properties
          /\ "max_dimension" \in DOMAIN bodies_data[k].properties
          /\ inputs.suggested[j] # bodies_data[j].name
          /\ inputs.suggested[k] # bodies_data[k].name

---------------------------------------------------------------------------
(* C10: a failed name write is isolated per body *)

\* row i of the table is accepted and names the body differently
Accepted(i) ==
    /\ inputs.select[i]
    /\ Strip(inputs.suggested[i]) # ""
    /\ Strip(inputs.suggested[i]) # host[bodies_data[i].body].name

\* the body of row i refuses a new name
Refuses(i) == host[bodies_data[i].body].name_write = "raises"

\* the 0-based row number as the error list prints it
RowLabel(i) == <<"0", "1", "2", "3", "4", "5", "6", "7", "8", "9">>[i]

\* C10: in the execute callback, a body whose name write fails keeps its name
\* and gets an entry "Body i: ..." in the error list; every other accepted
\* body, before or after it, carries its new name; the error list holds only
\* the failed writes, the count only the successful ones, and the callback
\* ends by showing its result.
C10_WriteFailureIsolated ==
    [][(pc = "dialog" /\ pc' = "executed") =>
          LET rows == 1..Len(bodies_data)
          IN  /\ \A i \in rows :
                    (Accepted(i) /\ Refuses(i)) =>
                        /\ host'[bodies_data[i].body].name = host[bodies_data[i].body].name
                        /\ \E e \in 1..Len(errors') :
                              errors'[e] = "Body " \o RowLabel(i) \o ": " \o WriteError
              /\ \A i \in rows :
                    (Accepted(i) /\ ~Refuses(i)) =>
                        host'[bodies_data[i].body].name = Strip(inputs.suggested[i])
              /\ Len(errors') = Cardinality({i \in rows : Accepted(i) /\ Refuses(i)})
              /\ renamed_count' = Cardinality({i \in rows : Accepted(i) /\ ~Refuses(i)})
              /\ messages' # <<>>
      ]_vars

\* C10 witness: of three bodies the second refused its new name and the first
\* and the third were renamed
C10_Witness ==
    /\ pc = "executed"
    /\ Len(bodies_data) = 3
    /\ errors = <<"Body 1: name rejected">>
    /\ renamed_count = 2
    /\ host[1].name # bodies_data[1].name
    /\ host[2].name = bodies_data[2].name
    /\ host[3].name # bodies_data[3].name

---------------------------------------------------------------------------
(* C11: on confirmation only accepted names are written *)

\* the suggestion of row i is empty once trimmed (it holds nothing but blanks)
BlankSuggestion(i) ==
    \A c \in 1..Len(inputs.suggested[i]) : SubSeq(inputs.suggested[i], c, c) = " "

\* row i is not accepted: its checkbox is unchecked or its suggestion is blank
NotAccepted(i) == ~inputs.select[i] \/ BlankSuggestion(i)

\* C11: in the execute callback, a body whose 'select' checkbox is unchecked or
\* whose suggested name is empty after trimming keeps its name, and the renamed
\* count counts none of these bodies: it is the number of bodies whose name
\* changed, all of them in accepted rows.
C11_OnlyAcceptedWritten ==
    [][(pc = "dialog" /\ pc' = "executed") =>
          LET rows == 1..Len(bodies_data)
              Renamed(i) ==
                  host'[bodies_data[i].body].name # host[bodies_data[i].body].name
          IN  /\ \A i \in rows : NotAccepted(i) => ~Renamed(i)
              /\ renamed_count' = Cardinality({i \in rows : Renamed(i)})
              /\ renamed_count' <= Cardinality({i \in rows : ~NotAccepted(i)})
              /\ \A b \in 1..Len(host) :
                    (\A i \in rows : bodies_data[i].body # b) => host'[b] = host[b]
      ]_vars

\* C11 witness: the dialog was confirmed with a row unchecked whose suggestion
\* differs from the body's name, the body kept its name, and another body was
\* renamed
C11_Witness ==
    /\ pc = "executed"
    /\ renamed_count >= 1
    /\ \E i \in 1..Len(bodies_data) :
          /\ ~inputs.select[i]
          /\ Strip(inputs.suggested[i]) # ""
          /\ Strip(inputs.suggested[i]) # bodies_data[i].name
          /\ host[bodies_data[i].body].name = bodies_data[i].name
          /\ host[bodies_data[i].body].name_write = "ok"

---------------------------------------------------------------------------
(* SpecAnalyze: analyze_body_characteristics called on one body *)

\* the extents of the boxes: zero, small ones, and larger ones that differ by
\* about a tenth
ExtentPool == {0, 2, 4, 20, 22, 28, 30, 32}

\* the coordinates of the min corner
CornerPool == {2 * k : k \in (-MaxShift)..MaxShift}

\* the bounding boxes the analyzer is run on
BoxPool ==
    {[status |-> "ok", minPoint |-> c,
      maxPoint |-> <<c[1] + e[1], c[2] + e[2], c[3] + e[3]>>] :
        c \in CornerPool \X CornerPool \X CornerPool,
        e \in ExtentPool \X ExtentPool \X ExtentPool}

InitAnalyze ==
    /\ \E bbox \in BoxPool :
          host = <<HostBody("Body1", TRUE, "ok", bbox, "ok", 6, "ok")>>
    /\ pc = "idle"
    /\ bodies_data = <<>>
    /\ user_hint = ""
    /\ last_call = NoCall
    /\ renamer_bodies = <<>>
    /\ inputs = NoInputs
    /\ renamed_count = 0
    /\ errors = <<>>
    /\ messages = <<>>
    /\ NoUtilities

AnalyzeBodyCharacteristics ==
    /\ last_call' = [op |-> "analyze_body_characteristics",
                     ret |-> analyze_body_characteristics(host[1])]
    /\ UNCHANGED <<bodies_data, user_hint, dialogVars, utilVars>>

NextAnalyze == AnalyzeBodyCharacteristics

SpecAnalyze == InitAnalyze /\ [][NextAnalyze]_vars

\* the body was analyzed
BodyAnalyzed == last_call.op = "analyze_body_characteristics"

\* the extents of the analyzed box along the three axes
ExtentOf(a) == host[1].boundingBox.maxPoint[a] - host[1].boundingBox.minPoint[a]

---------------------------------------------------------------------------
(* C12: degenerate bounding boxes are analyzed without a division by zero *)

\* C12: for every bounding box, also one with one, two or three zero extents,
\* the descriptor has no error marker, its aspect ratio is the largest extent
\* over the smallest plus 0.001, a denominator of at least 0.001, and the three
\* shape flags are set to a Boolean.
C12_DegenerateBoxAnalyzed ==
    BodyAnalyzed =>
        LET d == last_call.ret
            largest == CHOOSE e \in {ExtentOf(a) : a \in 1..3} :
                           \A a \in 1..3 : ExtentOf(a) <= e
            smallest == CHOOSE e \in {ExtentOf(a) : a \in 1..3} :
                            \A a \in 1..3 : e <= ExtentOf(a)
        IN  /\ "error" \notin DOMAIN d
            /\ "analysis_failed" \notin DOMAIN d
            /\ {"aspect_ratio", "is_long_thin", "is_cubic", "is_flat"} \subseteq DOMAIN d
            /\ d.aspect_ratio = <<1000 * largest, 1000 * smallest + 1>>
            /\ d.aspect_ratio[2] >= 1
            /\ {d.is_long_thin, d.is_cubic, d.is_flat} \subseteq BOOLEAN

\* C12 witness: a box whose three extents are zero was analyzed, and its
\* aspect ratio is 0 / 0.001
C12_Witness ==
    /\ BodyAnalyzed
    /\ \A a \in 1..3 : ExtentOf(a) = 0
    /\ last_call.ret.aspect_ratio = <<0, 1>>
    /\ ~last_call.ret.is_flat

---------------------------------------------------------------------------
(* PowerUserUtils: export and import of the rules document *)

\* JSON values, as json.dump writes them and json.load reads them
JString(s) == [t |-> "string", v |-> s]
JNumber(n) == [t |-> "number", v |-> n]
JBool(b) == [t |-> "bool", v |-> b]
JArray(items) == [t |-> "array", v |-> items]
JObject(members) == [t |-> "object", v |-> members]

\* the keys of a descriptor in the order the analyzer inserts them, and the
\* keys whose values are strings and Booleans
PropertyKeys ==
    <<"volume", "area", "mass", "width", "height", "depth", "max_dimension",
      "min_dimension", "aspect_ratio", "is_long_thin", "is_cubic", "is_flat",
      "face_count", "complexity", "center_x", "center_y", "center_z",
      "is_centered", "quadrant", "error", "analysis_failed">>
StringKeys == {"complexity", "quadrant", "error"}
BoolKeys == {"is_long_thin", "is_cubic", "is_flat", "is_centered", "analysis_failed"}

\* json.dump of a descriptor: an object with one member per key
RECURSIVE DumpProperties(_, _)
DumpProperties(p, i) ==
    IF i > Len(PropertyKeys) THEN <<>>
    ELSE LET k == PropertyKeys[i]
         IN  (IF k \in DOMAIN p
              THEN <<[key |-> k,
                      value |-> IF k \in StringKeys THEN JString(p[k])
                                ELSE IF k \in BoolKeys THEN JBool(p[k])
                                ELSE JNumber(p[k])]>>
              ELSE <<>>)
             \o DumpProperties(p, i + 1)

\* json.dump of the list of rules
RECURSIVE DumpRules(_)
DumpRules(naming_rules) ==
    IF naming_rules = <<>> THEN <<>>
    ELSE LET rule == Head(naming_rules)
         IN  <<JObject(<<[key |-> "original_name",
                          value |-> JString(rule.original_name)],
                         [key |-> "properties",
                          value |-> JObject(DumpProperties(rule.properties, 1))],
                         [key |-> "suggested_category",
                          value |-> JString(rule.suggested_category)]>>)>>
             \o DumpRules(Tail(naming_rules))

\* json.dump(rules)
JsonDump(rules) ==
    JObject(<<[key |-> "version", value |-> JString(rules.version)],
              [key |-> "timestamp", value |-> JNumber(rules.timestamp)],
              [key |-> "bodies_count", value |-> JNumber(rules.bodies_count)],
              [key |-> "naming_rules", value |-> JArray(DumpRules(rules.naming_rules))]>>)

\* json.load: objects become dicts, arrays lists
RECURSIVE JsonLoad(_)
RECURSIVE LoadItems(_)
LoadItems(items) ==
    IF items = <<>> THEN <<>>
    ELSE <<JsonLoad(Head(items))>> \o LoadItems(Tail(items))

JsonLoad(j) ==
    CASE j.t = "object" ->
            [k \in {j.v[m].key : m \in 1..Len(j.v)} |->
                LET last == CHOOSE m \in 1..Len(j.v) :
                                /\ j.v[m].key = k
                                /\ \A n \in (m + 1)..Len(j.v) : j.v[n].key # k
                IN  JsonLoad(j.v[last].value)]
      [] j.t = "array" -> LoadItems(j.v)
      [] OTHER -> j.v

\* the rules dict export_naming_rules builds; every body dict of a batch has a
\* 'name', and time.time() is the time of the call
RECURSIVE RuleList(_)
RuleList(bodies) ==
    IF bodies = <<>> THEN <<>>
    ELSE <<[original_name |-> Head(bodies).name,
            properties |-> DictGet(Head(bodies), "properties", EmptyDict),
            suggested_category |-> "auto-detected"]>>
         \o RuleList(Tail(bodies))

\* mutant of RulesOf: the list of rules is replaced by each rule instead of
\* being appended to
RulesOfLastOnly(bodies, now) ==
    [version |-> "2.0.0", timestamp |-> now, bodies_count |-> Len(bodies),
     naming_rules |-> IF bodies = <<>> THEN <<>>
                      ELSE RuleList(<<bodies[Len(bodies)]>>)]

RulesOf(bodies, now) ==
    [version |-> "2.0.0", timestamp |-> now, bodies_count |-> Len(bodies),
     naming_rules |-> RuleList(bodies)]

\* the file after json.dump wrote the whole document, and after it stopped
\* part way
WrittenFile(rules) == [status |-> "valid", doc |-> JsonDump(rules)]
TruncatedFile == [status |-> "truncated", doc |-> <<>>]

---------------------------------------------------------------------------
(* SpecRules: a batch exported to the rules document and imported again *)

\* the bodies of the exported batches
RuleBodies ==
    {[name |-> n, properties |-> d] :
        n \in {"Body1", "Plate"},
        d \in {Descriptor(60, FALSE, TRUE, FALSE, 25, -2), ErrorDescriptor, EmptyDict}}

RuleBatches == UNION {[1..k -> RuleBodies] : k \in 0..MaxBatch}

\* what the clock reads at the calls
Clock == {100, 200}

\* a document left by an earlier export
StaleFile == WrittenFile(RulesOf(<<[name |-> "Old", properties |-> EmptyDict]>>, 50))

InitRules ==
    /\ bodies_data \in RuleBatches
    /\ rules_file \in {NoFile, StaleFile}
    /\ handlers = <<>>
    /\ NoGeometry
    /\ user_hint = ""
    /\ last_call = NoCall
    /\ NoDialog

\* export_naming_rules(bodies_data, filename): open() fails, json.dump fails
\* part way, or the document is written
ExportNamingRules ==
    \E io \in {"written", "open_fails", "dump_fails"}, now \in Clock :
        /\ last_call.op \in {"none", "import_naming_rules"}
        /\ rules_file' = CASE io = "written" -> WrittenFile(RulesOf(bodies_data, now))
                            [] io = "dump_fails" -> TruncatedFile
                            [] OTHER -> rules_file
        /\ last_call' = [op |-> "export_naming_rules", io |-> io,
                         ret |-> (io = "written")]
        /\ UNCHANGED <<bodies_data, user_hint, dialogVars, handlers, geometryVars>>

\* import_naming_rules(filename): open() or json.load fails, or the document
\* is returned
ImportNamingRules ==
    \E io \in {"read", "read_fails"} :
        /\ last_call.op \in {"none", "export_naming_rules"}
        /\ last_call' = [op |-> "import_naming_rules", io |-> io,
                         ret |-> IF io = "read" /\ rules_file.status = "valid"
                                 THEN JsonLoad(rules_file.doc)
                                 ELSE EmptyDict,
                         exported |-> last_call.op = "export_naming_rules" /\ last_call.ret]
        /\ UNCHANGED <<bodies_data, user_hint, dialogVars, utilVars>>

NextRules ==
    \/ ExportNamingRules
    \/ ImportNamingRules

SpecRules == InitRules /\ [][NextRules]_vars

---------------------------------------------------------------------------
(* C13: round trip of the rules document *)

\* C13: an import that follows an export that returned True, and reads the
\* file, returns a mapping whose bodies_count is the batch size and whose
\* naming_rules has one entry per body, in batch order; an export whose write
\* failed returns False, and an import whose read failed, or whose file is
\* missing or cut short, returns the empty mapping.
C13_RulesRoundTrip ==
    /\ (last_call.op = "export_naming_rules" /\ last_call.io # "written")
            => last_call.ret = FALSE
    /\ (last_call.op = "export_naming_rules" /\ last_call.io = "written")
            => last_call.ret = TRUE
    /\ (last_call.op = "import_naming_rules"
            /\ (last_call.io = "read_fails" \/ rules_file.status # "valid"))
            => DOMAIN last_call.ret = {}
    /\ (last_call.op = "import_naming_rules" /\ last_call.exported
            /\ last_call.io = "read")
            => LET d == last_call.ret
               IN  /\ {"bodies_count", "naming_rules"} \subseteq DOMAIN d
                   /\ d.bodies_count = Len(bodies_data)
                   /\ Len(d.naming_rules) = Len(bodies_data)
                   /\ \A i \in 1..Len(bodies_data) :
                         /\ d.naming_rules[i].original_name = bodies_data[i].name
                         /\ DOMAIN d.naming_rules[i].properties
                               = DOMAIN bodies_data[i].properties

\* C13 witness: a batch of two bodies of different names was exported and
\* imported again
C13_Witness ==
    /\ last_call.op = "import_naming_rules"
    /\ last_call.exported
    /\ last_call.io = "read"
    /\ Len(bodies_data) = 2
    /\ bodies_data[1].name # bodies_data[2].name
    /\ last_call.ret.bodies_count = 2
    /\ last_call.ret.naming_rules[2].original_name = bodies_data[2].name

---------------------------------------------------------------------------
(* C14: end-to-end data flow of the dialog *)

\* a step in which the dialog was confirmed
Confirmed == pc = "dialog" /\ pc' = "executed"

\* C14: a click on 'AI Auto-Name' fills the table with the names
\* generate_intelligent_names returns for the batch and the typed hint, row i
\* holding the i-th name, and leaves the button unpressed; the suggestions then
\* stay as they are until the user edits one or clicks again; and a
\* confirmation after a click, with no row changed by hand and no body refusing
\* its name, leaves body i carrying the i-th suggestion.
C14_EndToEndDataFlow ==
    /\ [][MagicHandled =>
            /\ inputs'.suggested = generate_intelligent_names(bodies_data, user_hint)
            /\ ~inputs'.magicBtn
            /\ bodies_data' = bodies_data /\ host' = host
         ]_vars
    /\ [][(pc = "dialog" /\ pc' = "dialog" /\ ~MagicHandled
             /\ inputs'.edits = inputs.edits)
            => inputs'.suggested = inputs.suggested
         ]_vars
    /\ [][(Confirmed /\ inputs.clicked /\ inputs.edits = 0
             /\ \A i \in 1..Len(bodies_data) : ~Refuses(i))
            => /\ \A i \in 1..Len(bodies_data) :
                     /\ inputs.select[i]
                     /\ host'[bodies_data[i].body].name = inputs.suggested[i]
               /\ errors' = <<>>
         ]_vars

\* C14 witness: the dialog was opened on two bodies, 'AI Auto-Name' was clicked
\* under the hint 'Steel beam' and the dialog confirmed; both bodies carry the
\* generated names, which are not their old ones
C14_Witness ==
    /\ pc = "executed"
    /\ inputs.clicked
    /\ inputs.edits = 0
    /\ user_hint = "Steel beam"
    /\ Len(bodies_data) = 2
    /\ renamed_count = 2
    /\ inputs.suggested = generate_intelligent_names(bodies_data, user_hint)
    /\ \A i \in 1..2 :
          /\ host[bodies_data[i].body].name = inputs.suggested[i]
          /\ host[bodies_data[i].body].name # bodies_data[i].name

---------------------------------------------------------------------------
(* C15: is_cubic and the three extents *)

\* a and b differ by less than 10% of the larger of the two
WithinTenth(a, b) == 10 * (IF a < b THEN b - a ELSE a - b) < (IF a < b THEN b ELSE a)

\* C15: is_cubic is set exactly when every pair among width, height and depth,
\* height against depth included, differs by less than 10% of the larger of
\* the two.
C15_CubicIffAllPairsWithinTenth ==
    BodyAnalyzed =>
        (last_call.ret.is_cubic
            <=> /\ WithinTenth(ExtentOf(1), ExtentOf(2))
                /\ WithinTenth(ExtentOf(1), ExtentOf(3))
                /\ WithinTenth(ExtentOf(2), ExtentOf(3)))

---------------------------------------------------------------------------
(* C16: the stored center and the centroid of the bounding box *)

\* twice the midpoint of the analyzed box on axis a
TwiceMidpoint(a) == host[1].boundingBox.minPoint[a] + host[1].boundingBox.maxPoint[a]

\* C16: center_x, center_y and center_z are the midpoint (min + max) / 2 of the
\* box on each axis, and is_centered is set exactly when the midpoint is less
\* than 1 unit from the origin on X and on Y.
C16_CenterIsCentroid ==
    BodyAnalyzed =>
        LET d == last_call.ret
        IN  /\ 2 * d.center_x = TwiceMidpoint(1)
            /\ 2 * d.center_y = TwiceMidpoint(2)
            /\ 2 * d.center_z = TwiceMidpoint(3)
            /\ d.is_centered <=> (Abs(TwiceMidpoint(1)) < 2 /\ Abs(TwiceMidpoint(2)) < 2)

\* ---------------------------------------------------------------------------
\* GeometryManager (src/geometry.py).  Coordinates are integers and every
\* square root the code takes is of a perfect square, so distances are exact
\* rationals [num, den]; den = 0 stands for float('inf').
\* ---------------------------------------------------------------------------

\* the largest number of shapes held at once
MaxShapes == 2

\* the selection threshold of select_shape
SelectionThreshold == 5

\* Line(Point(start_x, start_y), Point(end_x, end_y)) as the object id
Line(id, start_x, start_y, end_x, end_y) ==
    [id |-> id, kind |-> "Line", start |-> <<start_x, start_y>>,
     end |-> <<end_x, end_y>>, center |-> <<0, 0>>, radius |-> 0]

\* Circle(Point(center_x, center_y), radius) as the object id
Circle(id, center_x, center_y, radius) ==
    [id |-> id, kind |-> "Circle", start |-> <<0, 0>>, end |-> <<0, 0>>,
     center |-> <<center_x, center_y>>, radius |-> radius]

\* dataclass equality: same class and equal fields, whatever the object
SameValue(a, b) == [a EXCEPT !.id = 0] = [b EXCEPT !.id = 0]

\* float('inf')
Infinity == [num |-> 1, den |-> 0]

\* a < b on distances
Less(a, b) ==
    IF a.den = 0 THEN FALSE
    ELSE IF b.den = 0 THEN TRUE
    ELSE a.num * b.den < b.num * a.den

\* math.sqrt on a perfect square
Sqrt(n) == CHOOSE r \in 0..n : r * r = n

\* GeometryManager._point_to_line_distance
point_to_line_distance(point, line) ==
    LET numerator == Abs((line.end[2] - line.start[2]) * point[1]
                         - (line.end[1] - line.start[1]) * point[2]
                         + line.end[1] * line.start[2]
                         - line.end[2] * line.start[1])
        denominator == Sqrt((line.end[2] - line.start[2]) * (line.end[2] - line.start[2])
                            + (line.end[1] - line.start[1]) * (line.end[1] - line.start[1]))
    IN  IF denominator # 0 THEN [num |-> numerator, den |-> denominator]
        ELSE Infinity

\* the distance select_shape computes for one shape
ShapeDistance(shape, x, y) ==
    IF shape.kind = "Line" THEN point_to_line_distance(<<x, y>>, shape)
    ELSE LET dist == Sqrt((x - shape.center[1]) * (x - shape.center[1])
                          + (y - shape.center[2]) * (y - shape.center[2]))
         IN  [num |-> Abs(dist - shape.radius), den |-> 1]

\* the loop of select_shape with the last nearest shape winning equal
\* distances
RECURSIVE SelectLoopLast(_, _, _, _, _, _)
SelectLoopLast(i, list, x, y, min_distance, selected) ==
    IF i > Len(list) THEN [min_distance |-> min_distance, selected |-> selected]
    ELSE LET dist == ShapeDistance(list[i], x, y)
         IN  IF ~Less(min_distance, dist)
             THEN SelectLoopLast(i + 1, list, x, y, dist, list[i])
             ELSE SelectLoopLast(i + 1, list, x, y, min_distance, selected)

\* the loop of select_shape from shape i on
RECURSIVE SelectLoop(_, _, _, _, _, _)
SelectLoop(i, list, x, y, min_distance, selected) ==
    IF i > Len(list) THEN [min_distance |-> min_distance, selected |-> selected]
    ELSE LET dist == ShapeDistance(list[i], x, y)
         IN  IF Less(dist, min_distance)
             THEN SelectLoop(i + 1, list, x, y, dist, list[i])
             ELSE SelectLoop(i + 1, list, x, y, min_distance, selected)

\* list.remove: the list without its first element equal to shape
RECURSIVE RemoveFirst(_, _)
RemoveFirst(list, shape) ==
    IF list = <<>> THEN <<>>
    ELSE IF SameValue(Head(list), shape) THEN Tail(list)
    ELSE <<Head(list)>> \o RemoveFirst(Tail(list), shape)

\* an object identity no live shape has
FreshId ==
    CHOOSE n \in 1..(MaxShapes + 2) :
        /\ selected_shape.id # n
        /\ \A i \in 1..Len(shapes) : shapes[i].id # n

\* the lines the caller draws: two axes, a slanted line and a zero-length one
LineArgs == {<<0, 0, 10, 0>>, <<0, 0, 0, 10>>, <<0, 0, 3, 4>>, <<3, 4, 3, 4>>}

\* the circles the caller draws, all round the origin
CircleArgs == {<<0, 0, 5>>, <<0, 0, 12>>}

\* the points the caller clicks, each at a whole distance from the origin
ClickPoints == {<<0, 0>>, <<0, 4>>, <<3, 4>>, <<6, 8>>, <<0, 9>>, <<0, 30>>, <<5, 12>>}

\* the shapes the caller can hand to delete_shape
ShapeArgs ==
    {Line(0, a[1], a[2], a[3], a[4]) : a \in LineArgs}
        \cup {Circle(0, a[1], a[2], a[3]) : a \in CircleArgs}

InitGeometry ==
    /\ NoGeometry
    /\ bodies_data = <<>>
    /\ user_hint = ""
    /\ last_call = NoCall
    /\ NoDialog
    /\ handlers = <<>>
    /\ rules_file = NoFile

\* GeometryManager.create_line
CreateLine ==
    \E a \in LineArgs :
        /\ Len(shapes) < MaxShapes
        /\ LET line == Line(FreshId, a[1], a[2], a[3], a[4])
           IN  /\ shapes' = Append(shapes, line)
               /\ last_call' = [op |-> "create_line", ret |-> line]
        /\ UNCHANGED <<bodies_data, user_hint, dialogVars, handlers, rules_file,
                       selected_shape>>

\* GeometryManager.create_circle
CreateCircle ==
    \E a \in CircleArgs :
        /\ Len(shapes) < MaxShapes
        /\ LET circle == Circle(FreshId, a[1], a[2], a[3])
           IN  /\ shapes' = Append(shapes, circle)
               /\ last_call' = [op |-> "create_circle", ret |-> circle]
        /\ UNCHANGED <<bodies_data, user_hint, dialogVars, handlers, rules_file,
                       selected_shape>>

\* GeometryManager.delete_shape
DeleteShape ==
    \E shape \in ShapeArgs :
        /\ shapes' = IF \E i \in 1..Len(shapes) : SameValue(shapes[i], shape)
                     THEN RemoveFirst(shapes, shape)
                     ELSE shapes
        /\ last_call' = [op |-> "delete_shape", ret |-> NoShape]
        /\ UNCHANGED <<bodies_data, user_hint, dialogVars, handlers, rules_file,
                       selected_shape>>

\* GeometryManager.select_shape
SelectShape ==
    \E p \in ClickPoints :
        LET found == SelectLoop(1, shapes, p[1], p[2], Infinity, NoShape)
            hit == Less(found.min_distance, [num |-> SelectionThreshold, den |-> 1])
        IN  /\ selected_shape' = IF hit THEN found.selected ELSE selected_shape
            /\ last_call' = [op |-> "select_shape", x |-> p[1], y |-> p[2],
                             ret |-> IF hit THEN found.selected ELSE NoShape]
            /\ UNCHANGED <<bodies_data, user_hint, dialogVars, handlers, rules_file,
                           shapes>>

NextGeometry ==
    \/ CreateLine
    \/ CreateCircle
    \/ DeleteShape
    \/ SelectShape

SpecGeometry == InitGeometry /\ [][NextGeometry]_vars

\* ---------------------------------------------------------------------------
\* C17
\* ---------------------------------------------------------------------------

\* a shape that has a distance to a point: a circle, or a line through two
\* different points
Measurable(shape) == shape.kind = "Circle" \/ shape.start # shape.end

\* the gap between the point and the circle's rim
RimGap(shape, x, y) ==
    LET s == (x - shape.center[1]) * (x - shape.center[1])
             + (y - shape.center[2]) * (y - shape.center[2])
    IN  CHOOSE k \in 0..(Abs(x) + Abs(y) + Abs(shape.center[1]) + Abs(shape.center[2])
                          + shape.radius) :
            \/ (shape.radius + k) * (shape.radius + k) = s
            \/ k <= shape.radius /\ (shape.radius - k) * (shape.radius - k) = s

\* the square of the distance from (x, y) to a measurable shape, as a
\* fraction: twice the area of the triangle (start, end, point) over the
\* length of the line, or the gap to the rim
DistanceSquared(shape, x, y) ==
    IF shape.kind = "Line"
    THEN LET ux == shape.end[1] - shape.start[1]
             uy == shape.end[2] - shape.start[2]
             area2 == ux * (y - shape.start[2]) - uy * (x - shape.start[1])
         IN  [num |-> area2 * area2, den |-> ux * ux + uy * uy]
    ELSE [num |-> RimGap(shape, x, y) * RimGap(shape, x, y), den |-> 1]

\* shape i is strictly closer to (x, y) than shape j
Closer(i, j, x, y) ==
    LET a == DistanceSquared(shapes[i], x, y)
        b == DistanceSquared(shapes[j], x, y)
    IN  a.num * b.den < b.num * a.den

\* shape i is the nearest shape to (x, y), the earliest of the nearest ones
Nearest(i, x, y) ==
    /\ Measurable(shapes[i])
    /\ \A j \in 1..Len(shapes) :
           Measurable(shapes[j]) =>
               /\ ~Closer(j, i, x, y)
               /\ j < i => Closer(i, j, x, y)

\* shape i is less than the threshold away from (x, y)
WithinThreshold(i, x, y) ==
    LET a == DistanceSquared(shapes[i], x, y)
    IN  a.num < SelectionThreshold * SelectionThreshold * a.den

\* C17: select_shape(x, y) returns the stored shape nearest to (x, y), the
\* earliest-created one among equally near shapes, and records it as
\* selected_shape when its distance (perpendicular distance for a line,
\* |distance to centre - radius| for a circle) is below the threshold 5;
\* otherwise it returns None and leaves selected_shape unchanged; the shape
\* list is unchanged either way.  A zero-length line has no perpendicular
\* distance and takes no part.
C17_SelectShapeNearestHit ==
    [][last_call'.op = "select_shape" =>
           LET x == last_call'.x
               y == last_call'.y
               hits == {i \in 1..Len(shapes) :
                            Nearest(i, x, y) /\ WithinThreshold(i, x, y)}
           IN  /\ shapes' = shapes
               /\ \A i \in hits : /\ last_call'.ret = shapes[i]
                                  /\ selected_shape' = shapes[i]
               /\ hits = {} => /\ last_call'.ret = NoShape
                               /\ selected_shape' = selected_shape]_vars

\* two different shapes are equally near the clicked point and the earlier
\* one was returned and selected
C17_Witness ==
    /\ last_call.op = "select_shape"
    /\ Len(shapes) = 2
    /\ ~SameValue(shapes[1], shapes[2])
    /\ Measurable(shapes[1]) /\ Measurable(shapes[2])
    /\ ~Closer(1, 2, last_call.x, last_call.y)
    /\ ~Closer(2, 1, last_call.x, last_call.y)
    /\ last_call.ret = shapes[1]
    /\ selected_shape = shapes[1]

\* ---------------------------------------------------------------------------
\* C19
\* ---------------------------------------------------------------------------

\* the shapes list holds a shape equal to the given one
Held(shape) == \E i \in 1..Len(shapes) : SameValue(shapes[i], shape)

\* C19: after any sequence of create_line, create_circle, delete_shape and
\* select_shape calls, selected_shape is None or a shape held in the shapes
\* list: a deleted shape is never left selected.
C19_SelectedShapeIsHeld ==
    selected_shape = NoShape \/ Held(selected_shape)

\* ---------------------------------------------------------------------------
\* The add-in's life: run, the command's creation and destruction, stop.
\* pc is "unloaded" before run, "idle" while the add-in is loaded and no
\* dialog is open, "dialog" while one is open, "stopped" after stop.
\* ---------------------------------------------------------------------------

InitLifecycle ==
    /\ host \in Designs
    /\ pc = "unloaded"
    /\ handlers = <<>>
    /\ bodies_data = <<>>
    /\ user_hint = ""
    /\ last_call = NoCall
    /\ renamer_bodies = <<>>
    /\ inputs = NoInputs
    /\ renamed_count = 0
    /\ errors = <<>>
    /\ messages = <<>>
    /\ rules_file = NoFile
    /\ NoGeometry

\* run(context) with the application at hand: the command-created handler is
\* connected and registered
Run ==
    /\ pc \in {"unloaded", "stopped"}
    /\ handlers' = Append(handlers, "cmd_created_handler")
    /\ pc' = "idle"
    /\ messages' = <<[kind |-> "info", text |-> "LOADED"]>>
    /\ UNCHANGED <<bodies_data, user_hint, last_call, host, renamer_bodies, inputs,
                   renamed_count, errors, rules_file, geometryVars>>

\* AIRenamerDestroyHandler.notify, when the dialog the handler was connected
\* to closes
CommandDestroy ==
    /\ pc = "dialog"
    /\ handlers' = <<>>
    /\ pc' = "idle"
    /\ UNCHANGED <<bodies_data, user_hint, last_call, host, renamer_bodies, inputs,
                   renamed_count, errors, messages, rules_file, geometryVars>>

\* stop(context)
Stop ==
    /\ pc \in {"idle", "dialog"}
    /\ handlers' = <<>>
    /\ pc' = "stopped"
    /\ UNCHANGED <<bodies_data, user_hint, last_call, host, renamer_bodies, inputs,
                   renamed_count, errors, messages, rules_file, geometryVars>>

NextLifecycle ==
    \/ Run
    \/ CommandCreated
    \/ CommandDestroy
    \/ Stop

SpecLifecycle == InitLifecycle /\ [][NextLifecycle]_vars

\* ---------------------------------------------------------------------------
\* C18
\* ---------------------------------------------------------------------------

\* the add-in has been run and not yet stopped
Loaded == pc \in {"idle", "dialog"}

\* the registry holds the handler
Registered(handler) == \E i \in 1..Len(handlers) : handlers[i] = handler

\* C18: in every state between run and stop, after any sequence of
\* command-created and command-destroy events, the command-created handler
\* registered by run is held in the registry, and only stop empties the
\* registry.
C18_RegistryKeptUntilStop ==
    /\ [](Loaded => Registered("cmd_created_handler"))
    /\ [][(handlers # <<>> /\ handlers' = <<>>) => pc' = "stopped"]_vars

\* ---------------------------------------------------------------------------
\* C20
\* ---------------------------------------------------------------------------

\* C20: for every batch and every hint, the names generate_intelligent_names
\* returns are pairwise distinct: no two bodies of one batch get the same
\* final name.
C20_NamesPairwiseDistinct ==
    Generated =>
        \A i, j \in 1..Len(last_call.ret) :
            i # j => last_call.ret[i] # last_call.ret[j]

\* all three bodies of a batch have the same descriptor, hence the same base
\* name, and were given three different names
C20_Witness ==
    /\ Generated
    /\ Len(bodies_data) = 3
    /\ bodies_data[1] = bodies_data[2]
    /\ bodies_data[2] = bodies_data[3]
    /\ Len(last_call.ret) = 3
    /\ Cardinality({last_call.ret[i] : i \in 1..3}) = 3

\* ---------------------------------------------------------------------------
\* C21
\* ---------------------------------------------------------------------------

\* C21: every descriptor analyze_body_characteristics derives from a bounding
\* box that is flagged flat is also flagged long-thin, so whenever the flat
\* word of 'Cover' earns its 15 the long-thin word of 'Shaft' earns 15 too.
C21_FlatImpliesLongThin ==
    BodyAnalyzed =>
        LET d == last_call.ret
        IN  /\ DictGet(d, "is_flat", FALSE) => DictGet(d, "is_long_thin", FALSE)
            /\ NameScore(d, "Cover") = 15 => NameScore(d, "Shaft") = 15

\* a box whose smallest extent is positive and less than a tenth of the
\* largest was analyzed and flagged both flat and long-thin
C21_Witness ==
    /\ BodyAnalyzed
    /\ \A a \in 1..3 : ExtentOf(a) > 0
    /\ \E a, b \in 1..3 : 10 * ExtentOf(a) < ExtentOf(b)
    /\ last_call.ret.is_flat
    /\ last_call.ret.is_long_thin
    /\ NameScore(last_call.ret, "Cover") = 15

\* ---------------------------------------------------------------------------
\* The dialog on designs whose bodies differ in their names only, some of the
\* names carrying a blank at an end.
\* ---------------------------------------------------------------------------

\* the names the bodies of these designs carry
BodyNames == {"Body1", "Rod", "Rod ", " Lid"}

\* a cube of the given name
NamedBody(name) == HostBody(name, TRUE, "ok", Box(60, 60, 60, 0), "ok", 6, "ok")

\* every list of at most MaxBodies named cubes
NamedDesigns == UNION {[1..k -> {NamedBody(n) : n \in BodyNames}] : k \in 0..MaxBodies}

InitConfirm ==
    /\ host \in NamedDesigns
    /\ pc = "idle"
    /\ bodies_data = <<>>
    /\ user_hint = ""
    /\ last_call = NoCall
    /\ renamer_bodies = <<>>
    /\ inputs = NoInputs
    /\ renamed_count = 0
    /\ errors = <<>>
    /\ messages = <<>>
    /\ handlers = <<"cmd_created_handler">>
    /\ rules_file = NoFile
    /\ NoGeometry

SpecConfirm == InitConfirm /\ [][Next]_vars

\* ---------------------------------------------------------------------------
\* C22
\* ---------------------------------------------------------------------------

\* 'AI Auto-Name' was never clicked and every suggestion is as the dialog
\* showed it first
Untouched == ~inputs.clicked /\ inputs.suggested = NamesFrom(bodies_data)

\* C22: when the dialog is confirmed without 'AI Auto-Name' having been
\* clicked and without a suggestion having been edited, whatever the names of
\* the bodies, no body's name is changed, the renamed count is 0 and the user
\* is shown the 'No changes were made' message.
C22_UntouchedDialogChangesNothing ==
    [][(Confirmed /\ Untouched) =>
           /\ host' = host
           /\ renamed_count' = 0
           /\ messages' = <<show_info("No changes were made. Select bodies and set names to apply changes.")>>
      ]_vars

\* ---------------------------------------------------------------------------
\* The naming pass invoked several times in a row on one batch and hint, as by
\* repeated clicks on 'AI Auto-Name'; last_call counts the calls and keeps the
\* names of the call before.
\* ---------------------------------------------------------------------------

\* the most calls made in a row
MaxCalls == 2

\* the calls made so far
CallsMade == IF last_call.op = "none" THEN 0 ELSE last_call.calls

GenerateAgain ==
    /\ CallsMade < MaxCalls
    /\ last_call' = [op |-> "generate_intelligent_names",
                     ret |-> generate_intelligent_names(bodies_data, user_hint),
                     calls |-> CallsMade + 1,
                     previous |-> IF last_call.op = "none" THEN <<>> ELSE last_call.ret]
    /\ UNCHANGED <<bodies_data, user_hint, dialogVars, utilVars>>

NextRepeat == GenerateAgain

SpecRepeat == InitNaming /\ [][NextRepeat]_vars

\* ---------------------------------------------------------------------------
\* C23
\* ---------------------------------------------------------------------------

\* the naming pass was called at least twice in a row
CalledAgain == Generated /\ last_call.calls >= 2

\* every base name that several bodies share was numbered from 1
NumberedFromOne ==
    \A i \in 1..Len(bodies_data) :
        (\E j \in 1..Len(bodies_data) : j # i /\ BatchSelection[j] = BatchSelection[i])
            => \E j \in 1..Len(bodies_data) :
                   last_call.ret[j] = Suffixed(BatchSelection[i], 1)

==========================================================================
